---- MODULE Spec2Model ----
(***************************************************************************)
(* envseal: the envelope-encryption vault (SecretFile), the roster         *)
(* (Manifest) and the rekey command, as state machines.                    *)
(*                                                                         *)
(* Strings are sequences of symbols; the symbol " " is white space, every  *)
(* other symbol stands for a run of non-space bytes.  A 32-byte DEK is a   *)
(* number 1..MaxDek (0 is the nil slice); GenerateDEK draws a key that was *)
(* never drawn before.  A value sealed under key k is readable with k      *)
(* only; a DEK wrapped for a public key is readable by the holder of the   *)
(* matching private key only.                                              *)
(***************************************************************************)
EXTENDS Integers, Sequences, FiniteSets, TLC

VARIABLES
    meta,       \* RawData["_envseal"]
    secrets,    \* RawData["secrets"]: name -> stored value
    legacy,     \* the other top-level keys of RawData
    dek,        \* decryptedDEK (0: nil)
    nextDek,    \* the key the next GenerateDEK returns
    last,       \* the last call or command, its error, who lost access by it
    file,       \* secrets.enc.yaml on disk
    roster,     \* envseal.yaml on disk: Manifest.AccessControl
    rekey,      \* the running "rekey --rotate": position and local variables
    obs,        \* what a goroutine sharing the SecretFile with the rotation read
    seal,       \* one EncryptValue call and the DecryptValue calls on its output
    fs,         \* one AtomicWriteFile call: its position and the files it touches
    mu,         \* SecretFile.mu and the position of each goroutine calling the object
    rawDoc,     \* access_control of envseal.yaml as yaml.Unmarshal read it
    proc,       \* one run of a command that unlocks the vault: its position
    disk,       \* the three files of envseal init and the position of its run
    stdout      \* the lines the unset command has printed

vars == <<meta, secrets, legacy, dek, nextDek, last, file, roster, rekey, obs, seal, fs, mu,
          rawDoc, proc, disk, stdout>>

(* ------------------------------ bounds --------------------------------- *)

\* How many DEKs GenerateDEK may mint in one behaviour.
MaxDek == 2
\* The longest recipient list handed to Init / RotateRecipients.
MaxRecips == 2
\* The longest plaintext handed to EncryptValue, in bytes.
MaxPlainLen == 2
\* The longest file content, in blocks.
MaxBlocks == 2
\* The longest access_control list of a document that is loaded.
MaxRaw == 2

(* ------------------------------ strings -------------------------------- *)

SP == " "

TrimLeft(s) ==
    LET skip[i \in 1..(Len(s) + 1)] ==
            IF i <= Len(s) /\ s[i] = SP THEN skip[i + 1] ELSE i
    IN  SubSeq(s, skip[1], Len(s))

TrimRight(s) ==
    LET keep[i \in 0..Len(s)] ==
            IF i >= 1 /\ s[i] = SP THEN keep[i - 1] ELSE i
    IN  SubSeq(s, 1, keep[Len(s)])

\* strings.TrimSpace
TrimSpace(s) == TrimRight(TrimLeft(s))

\* Byte order of the symbols that are compared (space sorts first, upper case
\* before "_", "_" before lower case).
CharRank(c) ==
    CASE c = SP         -> 0
      [] c = "J"        -> 1
      [] c = "K"        -> 2
      [] c = "_envseal" -> 3
      [] c = "a"        -> 4
      [] c = "age1a"    -> 5
      [] c = "age1b"    -> 6
      [] c = "al!ce"    -> 7
      [] c = "alice"    -> 8
      [] c = "bad"      -> 9
      [] c = "bob"      -> 10
      [] c = "secrets"  -> 11
      [] OTHER          -> 12

\* s < t in Go's string order.
StrLess(s, t) ==
    LET less[i \in 1..(Len(s) + 1)] ==
            IF i > Len(s) THEN i <= Len(t)
            ELSE IF i > Len(t) THEN FALSE
            ELSE IF s[i] = t[i] THEN less[i + 1]
            ELSE CharRank(s[i]) < CharRank(t[i])
    IN  less[1]

\* sort.Strings of a set of distinct strings.
RECURSIVE SortStrings(_)
SortStrings(S) ==
    IF S = {} THEN <<>>
    ELSE LET m == CHOOSE x \in S : \A y \in S \ {x} : StrLess(x, y)
         IN  <<m>> \o SortStrings(S \ {m})

MetadataKey == <<"_envseal">>
SecretsKey  == <<"secrets">>

(* ------------------------------ identities ----------------------------- *)

Users == {"A", "B"}
NilIdentity == "nil"

\* identity.Recipient().String()
PubKeyOf(u) == IF u = "A" THEN <<"age1a">> ELSE <<"age1b">>

\* age.ParseX25519Recipient accepts exactly the well-formed public keys.
ParsesAsRecipient(pk) == \E u \in Users : pk = PubKeyOf(u)

\* The public-key strings callers pass: two valid keys, one of them also with
\* a leading space, a blank string and a malformed key.
PubKeyInputs == {<<"age1a">>, <<"age1b">>, <<SP, "age1a">>, <<SP>>, <<"bad">>}

RecipientLists ==
    UNION {[1..n -> PubKeyInputs] : n \in 0..MaxRecips}

(* ------------------------------ values --------------------------------- *)

\* A stored YAML scalar.  kind "str": the text p wrapped in Len(ks) seal
\* markers ENC[age,chacha20,...], the outermost sealed under ks[1]; kind
\* "int": a scalar that is not a string.
Str(p) == [kind |-> "str", ks |-> <<>>, p |-> p]
IntVal(p) == [kind |-> "int", ks |-> <<>>, p |-> p]

PlainInputs == {Str("v"), Str("w")}

validateDEK(k) == k # 0

\* crypto.EncryptValue: base64(nonce || ciphertext), readable with k only.
EncryptValue(plaintext, k) ==
    IF ~validateDEK(k) THEN [err |-> "ErrInvalidDEK"]
    ELSE [err |-> "nil", ct |-> [k |-> k, of |-> plaintext]]

wrapEncrypted(ct) ==
    [kind |-> "str", ks |-> <<ct.k>> \o ct.of.ks, p |-> ct.of.p]

HasMarker(s) == s.ks # <<>>

\* crypto.DecryptValue of the text inside the marker.
DecryptValue(s, k) ==
    IF ~validateDEK(k) THEN [err |-> "ErrInvalidDEK"]
    ELSE IF Head(s.ks) # k THEN [err |-> "ErrDecryptValue"]
    ELSE [err |-> "nil", val |-> [kind |-> "str", ks |-> Tail(s.ks), p |-> s.p]]

\* A stored string whose marker holds bytes that no key authenticates (a
\* nonce, ciphertext or tag that was changed after sealing).
Tampered(p) == [kind |-> "str", ks |-> <<0>>, p |-> p]

decryptIfNeeded(s, k) ==
    IF ~HasMarker(s) THEN [err |-> "nil", val |-> s]
    ELSE DecryptValue(s, k)

decryptAnyLocked(v, k) ==
    IF v.kind # "str" THEN [err |-> "ErrNotString"]
    ELSE decryptIfNeeded(v, k)

\* crypto.EncryptDEK for one recipient: the armored age ciphertext.
EncryptDEK(k, pubKey) ==
    IF ~validateDEK(k) THEN [err |-> "ErrInvalidDEK"]
    ELSE IF ~ParsesAsRecipient(pubKey) THEN [err |-> "ErrInvalidPubKey"]
    ELSE [err |-> "nil", enc |-> [to |-> pubKey, key |-> k]]

\* crypto.DecryptDEK
DecryptDEK(enc, identity) ==
    IF identity = NilIdentity THEN [err |-> "ErrDenied"]
    ELSE IF enc.to # PubKeyOf(identity) THEN [err |-> "ErrDenied"]
    ELSE IF ~validateDEK(enc.key) THEN [err |-> "ErrDenied"]
    ELSE [err |-> "nil", key |-> enc.key]

(* ------------------------- sealing, byte by byte ----------------------- *)

\* chacha20poly1305.KeySize
dekSize == 32
\* aead.NonceSize()
NonceSize == 12
\* aead.Overhead(): the length of the authentication tag
Overhead == 16

\* One byte of a slice.  t "pt": byte b of a text; "rnd": byte i of the x-th
\* draw of fillRandom (b = x); "ct": byte i of the ciphertext of plaintext
\* byte b under key k and nonce n; "tag": byte i of the tag of message m under
\* key k and nonce n.
Byte(t, k, n, i, b, m) == [t |-> t, k |-> k, n |-> n, i |-> i, b |-> b, m |-> m]

\* A byte slice used as a key: its length and the key its bytes spell.
KeySlice(len, id) == [len |-> len, id |-> id]

\* validateDEK on a byte slice.
validateDEKLen(d) == d.len = dekSize

\* fillRandom(nonce), the x-th draw.
Nonce(x) == [j \in 1..NonceSize |-> Byte("rnd", 0, <<>>, j, x, <<>>)]

\* aead.Seal(dst, nonce, plaintext, nil): dst, then the ciphertext, then the tag.
AeadSeal(dst, key, nonce, plaintext) ==
    dst \o [i \in 1..Len(plaintext) |-> Byte("ct", key.id, nonce, i, plaintext[i], <<>>)]
        \o [j \in 1..Overhead |-> Byte("tag", key.id, nonce, j, 0, plaintext)]

\* aead.Open(nil, nonce, ciphertext, nil): the plaintext if the tag
\* authenticates the ciphertext under this key and nonce.
AeadOpen(key, nonce, ciphertext) ==
    LET n == Len(ciphertext) - Overhead
        pt == [i \in 1..n |-> ciphertext[i].b]
    IN  IF n < 0 THEN [err |-> "ErrOpen", pt |-> <<>>]
        ELSE IF ciphertext = AeadSeal(<<>>, key, nonce, pt) THEN [err |-> "nil", pt |-> pt]
        ELSE [err |-> "ErrOpen", pt |-> <<>>]

\* base64.StdEncoding: a text that decodes to data, or one that does not decode.
EncodeToString(data) == [b64 |-> TRUE, data |-> data]
DecodeString(text) ==
    IF text.b64 THEN [err |-> "nil", data |-> text.data]
    ELSE [err |-> "ErrBase64", data |-> <<>>]

\* A variant that does not put the nonce in front of the ciphertext.
EncryptValueB64_noNonce(plaintext, key, nonce) ==
    IF ~validateDEKLen(key) THEN [err |-> "ErrInvalidDEK", text |-> EncodeToString(<<>>)]
    ELSE [err |-> "nil", text |-> EncodeToString(AeadSeal(<<>>, key, nonce, plaintext))]

\* crypto.EncryptValue on bytes, with the nonce fillRandom drew:
\* Base64(Nonce + Ciphertext).
EncryptValueB64(plaintext, key, nonce) ==
    IF ~validateDEKLen(key) THEN [err |-> "ErrInvalidDEK", text |-> EncodeToString(<<>>)]
    ELSE [err |-> "nil", text |-> EncodeToString(AeadSeal(nonce, key, nonce, plaintext))]

\* crypto.DecryptValue on bytes: [err, val].
DecryptValueB64(encryptedBase64, key) ==
    LET d == DecodeString(encryptedBase64)
        data == d.data
        nonce == SubSeq(data, 1, NonceSize)
        ciphertext == SubSeq(data, NonceSize + 1, Len(data))
        o == AeadOpen(key, nonce, ciphertext)
    IN  IF ~validateDEKLen(key) THEN [err |-> "ErrInvalidDEK", val |-> <<>>]
        ELSE IF d.err # "nil" THEN [err |-> d.err, val |-> <<>>]
        ELSE IF Len(data) < NonceSize THEN [err |-> "ErrCiphertextShort", val |-> <<>>]
        ELSE IF o.err # "nil" THEN [err |-> "ErrDecryptValue", val |-> <<>>]
        ELSE [err |-> "nil", val |-> o.pt]

\* The plaintexts, keys (three of 32 bytes, one of 16) and nonces of the calls.
PlainBytes == {0, 1}
Plaintexts == UNION {[1..n -> PlainBytes] : n \in 0..MaxPlainLen}
KeySlices == {KeySlice(dekSize, id) : id \in 1..3} \cup {KeySlice(16, 1)}
Nonces == {Nonce(1), Nonce(2)}

\* No call has been made.
NoSeal ==
    [pc |-> "idle", p |-> <<>>, key |-> KeySlice(0, 0), nonce |-> <<>>,
     enc |-> [err |-> "nil", text |-> EncodeToString(<<>>)],
     opened |-> {}, rejected |-> {}, out |-> [err |-> "nil", val |-> <<>>]]

\* A file: whether the name exists, and its content in blocks.
NoSuchFile == [exists |-> FALSE, content |-> <<>>]
FileOf(content) == [exists |-> TRUE, content |-> content]

\* No AtomicWriteFile call has been made.
NoFs ==
    [pc |-> "idle", prev |-> NoSuchFile, data |-> <<>>, dest |-> NoSuchFile,
     tmp |-> NoSuchFile, renamed |-> FALSE, err |-> "nil"]

\* The goroutines that share one SecretFile.
Goroutines == {"g1", "g2", "g3"}

\* sync.RWMutex, free, and no goroutine inside a method.
NoMu ==
    [readers |-> {}, writer |-> "none",
     at |-> [g \in Goroutines |-> [op |-> "none", pc |-> "idle"]]]

\* No command is running.
NoProc ==
    [cmd |-> "none", id |-> "nil", pc |-> "idle", unlocked |-> FALSE,
     lockCalls |-> 0, exit |-> "none"]

\* No file of init is looked at.
NoDisk ==
    [identity |-> [exists |-> FALSE, key |-> "none"],
     manifest |-> [exists |-> FALSE, users |-> <<>>],
     pc |-> "idle", pubKey |-> <<>>, result |-> "none", runs |-> 0,
     before |-> <<>>, prevNil |-> FALSE]

LibIdle == seal = NoSeal /\ fs = NoFs /\ mu = NoMu /\ rawDoc = <<>> /\ proc = NoProc /\ disk = NoDisk /\ stdout = <<>>

(* ------------------------------ maps ----------------------------------- *)

EmptyMap == [x \in {} |-> [kind |-> "str", ks |-> <<>>, p |-> ""]]
MapSet(m, k, v) == [x \in (DOMAIN m) \cup {k} |-> IF x = k THEN v ELSE m[x]]
MapDel(m, k) == [x \in (DOMAIN m) \ {k} |-> m[x]]

(* ------------------------------ the vault ------------------------------ *)

\* RawData[MetadataKey]: absent, the recipients list of a Metadata block, or a
\* YAML node that does not decode into Metadata.
NoMeta == [present |-> FALSE, malformed |-> FALSE, recipients |-> <<>>]
Metadata(recipients) == [present |-> TRUE, malformed |-> FALSE, recipients |-> recipients]
MalformedMeta == [present |-> TRUE, malformed |-> TRUE, recipients |-> <<>>]

\* The SecretFile as a value: RawData (meta, secrets, legacy top-level keys)
\* and decryptedDEK.
SF == [meta |-> meta, secrets |-> secrets, legacy |-> legacy, dek |-> dek]

NewSecretFile ==
    [meta |-> NoMeta, secrets |-> EmptyMap, legacy |-> EmptyMap, dek |-> 0]

Ret(v, err) == [sf |-> v, err |-> err]

normalizeAndDedupe(keys) ==
    SortStrings({TrimSpace(keys[i]) : i \in DOMAIN keys} \ {<<>>})

\* A variant that wraps the DEK for the first key of the list only.
rotateRecipientsLocked_firstOnly(v, publicKeys) ==
    LET pks == normalizeAndDedupe(publicKeys)
        w == EncryptDEK(v.dek, pks[1])
    IN  IF Len(pks) = 0 THEN Ret(v, "ErrEmptyRecipients")
        ELSE IF \E i \in DOMAIN pks : EncryptDEK(v.dek, pks[i]).err # "nil"
        THEN Ret(v, "ErrEncryptRecipient")
        ELSE Ret([v EXCEPT !.meta = Metadata(<<[arg |-> pks[1], enc |-> w.enc]>>)], "nil")

\* A variant that appends the new entries to the old list instead of replacing it.
rotateRecipientsLocked_append(v, publicKeys) ==
    LET pks == normalizeAndDedupe(publicKeys)
        wraps == [i \in DOMAIN pks |-> EncryptDEK(v.dek, pks[i])]
    IN  IF Len(pks) = 0 THEN Ret(v, "ErrEmptyRecipients")
        ELSE IF \E i \in DOMAIN pks : wraps[i].err # "nil"
        THEN Ret(v, "ErrEncryptRecipient")
        ELSE Ret([v EXCEPT !.meta = Metadata(v.meta.recipients \o
                     [i \in DOMAIN pks |-> [arg |-> pks[i], enc |-> wraps[i].enc]])],
                 "nil")

\* A variant that stores each entry as soon as it is wrapped.
rotateRecipientsLocked_eager(v, publicKeys) ==
    LET pks == normalizeAndDedupe(publicKeys)
        wraps == [i \in DOMAIN pks |-> EncryptDEK(v.dek, pks[i])]
        bad == {i \in DOMAIN pks : wraps[i].err # "nil"}
        n == IF bad = {} THEN Len(pks)
             ELSE (CHOOSE i \in bad : \A j \in bad : i <= j) - 1
    IN  IF Len(pks) = 0 THEN Ret(v, "ErrEmptyRecipients")
        ELSE Ret([v EXCEPT !.meta = Metadata(
                     [i \in 1..n |-> [arg |-> pks[i], enc |-> wraps[i].enc]])],
                 IF bad = {} THEN "nil" ELSE "ErrEncryptRecipient")

rotateRecipientsLocked(v, publicKeys) ==
    LET pks == normalizeAndDedupe(publicKeys)
        wraps == [i \in DOMAIN pks |-> EncryptDEK(v.dek, pks[i])]
    IN  IF Len(pks) = 0 THEN Ret(v, "ErrEmptyRecipients")
        ELSE IF \E i \in DOMAIN pks : wraps[i].err # "nil"
        THEN Ret(v, "ErrEncryptRecipient")
        ELSE Ret([v EXCEPT !.meta = Metadata(
                     [i \in DOMAIN pks |-> [arg |-> pks[i], enc |-> wraps[i].enc]])],
                 "nil")

\* SecretFile.Init with the key GenerateDEK returns.
InitOp(v, initialRecipients, fresh) ==
    IF Len(initialRecipients) = 0 THEN Ret(v, "ErrEmptyInitial")
    ELSE rotateRecipientsLocked([v EXCEPT !.dek = fresh], initialRecipients)

\* A variant that also empties the secrets map.
RotateRecipientsOp_clears(v, publicKeys) ==
    IF v.dek = 0 THEN Ret(v, "ErrRotateLocked")
    ELSE rotateRecipientsLocked([v EXCEPT !.secrets = EmptyMap], publicKeys)

RotateRecipientsOp(v, publicKeys) ==
    IF v.dek = 0 THEN Ret(v, "ErrRotateLocked")
    ELSE rotateRecipientsLocked(v, publicKeys)

IsUnlocked(v) == v.dek # 0

\* zeroBytes(b): the buffer after the call, its length and the key its bytes
\* spell (0: none, every byte is zero).
zeroBytes(b) == [len |-> IF b = 0 THEN 0 ELSE dekSize, key |-> 0]

\* A variant that refuses to lock a vault that is already locked.
LockOp_strict(v) ==
    [sf |-> [v EXCEPT !.dek = 0], err |-> IF v.dek = 0 THEN "ErrLocked" ELSE "nil",
     buf |-> zeroBytes(v.dek)]

\* SecretFile.Lock: the object, no error, and the buffer that held the DEK.
LockOp(v) == [sf |-> [v EXCEPT !.dek = 0], err |-> "nil", buf |-> zeroBytes(v.dek)]

\* The first recipient entry that unwraps, in stored order.
FirstUnwrap(recipients, identity) ==
    LET ok == {i \in DOMAIN recipients :
                  DecryptDEK(recipients[i].enc, identity).err = "nil"}
    IN  IF ok = {} THEN [err |-> "ErrAccessDenied"]
        ELSE LET i == CHOOSE i \in ok : \A j \in ok : i <= j
             IN  DecryptDEK(recipients[i].enc, identity)

\* A variant that reports a missing metadata block as a denied access.
UnlockOp_deniesAll(v, identity) ==
    IF identity = NilIdentity THEN Ret(v, "ErrNilIdentity")
    ELSE IF ~v.meta.present THEN Ret(v, "ErrAccessDenied")
    ELSE IF v.meta.malformed THEN Ret(v, "ErrParseMetadata")
    ELSE LET r == FirstUnwrap(v.meta.recipients, identity)
         IN  IF r.err # "nil" THEN Ret(v, "ErrAccessDenied")
             ELSE Ret([v EXCEPT !.dek = r.key], "nil")

\* A variant that zeroes the DEK before it tries the recipient entries, so
\* a denied Unlock leaves the vault locked.
UnlockOp_zeroesFirst(v, identity) ==
    IF identity = NilIdentity THEN Ret(v, "ErrNilIdentity")
    ELSE IF ~v.meta.present THEN Ret(v, "ErrMissingMetadata")
    ELSE IF v.meta.malformed THEN Ret(v, "ErrParseMetadata")
    ELSE LET r == FirstUnwrap(v.meta.recipients, identity)
         IN  IF r.err # "nil" THEN Ret([v EXCEPT !.dek = 0], "ErrAccessDenied")
             ELSE Ret([v EXCEPT !.dek = r.key], "nil")

UnlockOp(v, identity) ==
    IF identity = NilIdentity THEN Ret(v, "ErrNilIdentity")
    ELSE IF ~v.meta.present THEN Ret(v, "ErrMissingMetadata")
    ELSE IF v.meta.malformed THEN Ret(v, "ErrParseMetadata")
    ELSE LET r == FirstUnwrap(v.meta.recipients, identity)
         IN  IF r.err # "nil" THEN Ret(v, "ErrAccessDenied")
             ELSE Ret([v EXCEPT !.dek = r.key], "nil")

IsReserved(key) == key = MetadataKey \/ key = SecretsKey

\* A variant without the test for reserved names: delete(sf.RawData, key) then
\* removes the metadata block or the secrets container.
SetSecretOp_unguarded(v, rawKey, value) ==
    LET key == TrimSpace(rawKey)
        e == EncryptValue(value, v.dek)
    IN  IF v.dek = 0 THEN Ret(v, "ErrLocked")
        ELSE IF key = <<>> THEN Ret(v, "ErrEmptyKey")
        ELSE IF e.err # "nil" THEN Ret(v, e.err)
        ELSE Ret([v EXCEPT !.secrets = IF key = SecretsKey THEN EmptyMap
                                       ELSE MapSet(v.secrets, key, wrapEncrypted(e.ct)),
                           !.legacy = MapDel(v.legacy, key),
                           !.meta = IF key = MetadataKey THEN NoMeta ELSE @],
                 "nil")

SetSecretOp(v, rawKey, value) ==
    LET key == TrimSpace(rawKey)
        e == EncryptValue(value, v.dek)
    IN  IF v.dek = 0 THEN Ret(v, "ErrLocked")
        ELSE IF key = <<>> THEN Ret(v, "ErrEmptyKey")
        ELSE IF IsReserved(key) THEN Ret(v, "ErrReserved")
        ELSE IF e.err # "nil" THEN Ret(v, e.err)
        ELSE Ret([v EXCEPT !.secrets = MapSet(v.secrets, key, wrapEncrypted(e.ct)),
                           !.legacy = MapDel(v.legacy, key)],
                 "nil")

\* A variant that does not require the DEK.
UnsetSecretOp_anyState(v, rawKey) ==
    LET key == TrimSpace(rawKey)
    IN  IF key = <<>> THEN Ret(v, "ErrEmptyKey")
        ELSE IF IsReserved(key) THEN Ret(v, "ErrReserved")
        ELSE IF key \notin DOMAIN v.secrets /\ key \notin DOMAIN v.legacy
        THEN Ret(v, "ErrNotExist")
        ELSE Ret([v EXCEPT !.secrets = MapDel(v.secrets, key),
                           !.legacy = MapDel(v.legacy, key)],
                 "nil")

\* A variant that removes the name from the secrets map only.
UnsetSecretOp_canonicalOnly(v, rawKey) ==
    LET key == TrimSpace(rawKey)
    IN  IF v.dek = 0 THEN Ret(v, "ErrLocked")
        ELSE IF key = <<>> THEN Ret(v, "ErrEmptyKey")
        ELSE IF IsReserved(key) THEN Ret(v, "ErrReserved")
        ELSE IF key \notin DOMAIN v.secrets /\ key \notin DOMAIN v.legacy
        THEN Ret(v, "ErrNotExist")
        ELSE Ret([v EXCEPT !.secrets = MapDel(v.secrets, key)], "nil")

UnsetSecretOp(v, rawKey) ==
    LET key == TrimSpace(rawKey)
    IN  IF v.dek = 0 THEN Ret(v, "ErrLocked")
        ELSE IF key = <<>> THEN Ret(v, "ErrEmptyKey")
        ELSE IF IsReserved(key) THEN Ret(v, "ErrReserved")
        ELSE IF key \notin DOMAIN v.secrets /\ key \notin DOMAIN v.legacy
        THEN Ret(v, "ErrNotExist")
        ELSE Ret([v EXCEPT !.secrets = MapDel(v.secrets, key),
                           !.legacy = MapDel(v.legacy, key)],
                 "nil")

\* A variant that looks at the legacy top level first.
GetSecretOp_legacyFirst(v, rawKey) ==
    LET key == TrimSpace(rawKey)
    IN  IF v.dek = 0 THEN [err |-> "ErrLocked"]
        ELSE IF key = <<>> THEN [err |-> "ErrEmptyKey"]
        ELSE IF IsReserved(key) THEN [err |-> "ErrReserved"]
        ELSE IF key \in DOMAIN v.legacy THEN decryptAnyLocked(v.legacy[key], v.dek)
        ELSE IF key \in DOMAIN v.secrets THEN decryptAnyLocked(v.secrets[key], v.dek)
        ELSE [err |-> "ErrKeyNotFound"]

\* A variant that hands back the stored value when it cannot be unsealed.
GetSecretOp_bestEffort(v, rawKey) ==
    LET key == TrimSpace(rawKey)
        stored == IF key \in DOMAIN v.secrets THEN v.secrets[key] ELSE v.legacy[key]
        r == decryptAnyLocked(stored, v.dek)
    IN  IF v.dek = 0 THEN [err |-> "ErrLocked"]
        ELSE IF key = <<>> THEN [err |-> "ErrEmptyKey"]
        ELSE IF IsReserved(key) THEN [err |-> "ErrReserved"]
        ELSE IF key \notin (DOMAIN v.secrets) \cup (DOMAIN v.legacy)
        THEN [err |-> "ErrKeyNotFound"]
        ELSE IF r.err = "nil" THEN r
        ELSE [err |-> "nil", val |-> Str(stored.p)]

\* SecretFile.GetSecret: [err, val].
GetSecretOp(v, rawKey) ==
    LET key == TrimSpace(rawKey)
    IN  IF v.dek = 0 THEN [err |-> "ErrLocked"]
        ELSE IF key = <<>> THEN [err |-> "ErrEmptyKey"]
        ELSE IF IsReserved(key) THEN [err |-> "ErrReserved"]
        ELSE IF key \in DOMAIN v.secrets THEN decryptAnyLocked(v.secrets[key], v.dek)
        ELSE IF key \in DOMAIN v.legacy THEN decryptAnyLocked(v.legacy[key], v.dek)
        ELSE [err |-> "ErrKeyNotFound"]

\* fmt.Sprintf("%v", v) of a scalar that is not a string.
Sprintf(v) == Str(v.p)

\* A variant that aborts the batch at the first entry it cannot unseal.
GetAllSecretsOp_failFast(v) ==
    LET names == (DOMAIN v.secrets) \cup {k \in DOMAIN v.legacy : ~IsReserved(k)}
        Stored(k) == IF k \in DOMAIN v.secrets THEN v.secrets[k] ELSE v.legacy[k]
    IN  IF v.dek = 0 THEN [err |-> "ErrLocked"]
        ELSE IF \E k \in names : decryptAnyLocked(Stored(k), v.dek).err # "nil"
        THEN [err |-> "ErrDecryptValue"]
        ELSE [err |-> "nil", out |-> [k \in names |-> decryptAnyLocked(Stored(k), v.dek).val]]

\* SecretFile.GetAllSecrets: [err, out].
GetAllSecretsOp(v) ==
    LET canon == [k \in DOMAIN v.secrets |->
                    LET r == decryptAnyLocked(v.secrets[k], v.dek)
                    IN  IF r.err = "nil" THEN r.val
                        ELSE IF v.secrets[k].kind = "str" THEN v.secrets[k]
                        ELSE Sprintf(v.secrets[k])]
        extra == {k \in DOMAIN v.legacy :
                    /\ ~IsReserved(k)
                    /\ k \notin DOMAIN v.secrets
                    /\ v.legacy[k].kind = "str"}
        out == [k \in (DOMAIN v.secrets) \cup extra |->
                    IF k \in DOMAIN v.secrets THEN canon[k]
                    ELSE LET r == decryptIfNeeded(v.legacy[k], v.dek)
                         IN  IF r.err = "nil" THEN r.val ELSE v.legacy[k]]
    IN  IF v.dek = 0 THEN [err |-> "ErrLocked"]
        ELSE [err |-> "nil", out |-> out]

(* ------------------------- persistence (documents) --------------------- *)

NoFile == [exists |-> FALSE, meta |-> NoMeta, secrets |-> EmptyMap, legacy |-> EmptyMap]

\* yaml.Marshal(sf.RawData): the document Save writes; the DEK is not part of it.
MarshalRawData(v) ==
    [exists |-> TRUE, meta |-> v.meta, secrets |-> v.secrets, legacy |-> v.legacy]

\* config.LoadSecretFile of what is on disk: locked, with a secrets map.
LoadSecretFile(doc) ==
    IF ~doc.exists THEN NewSecretFile
    ELSE [meta |-> doc.meta, secrets |-> doc.secrets, legacy |-> doc.legacy, dek |-> 0]

\* No rotation is running.
IdleRekey ==
    [pc |-> "idle", target |-> <<>>, all |-> EmptyMap, todo |-> {},
     pre |-> NewSecretFile]

\* No goroutine has read the object.
NoRead == [by |-> "none", err |-> "nil", partial |-> FALSE]

(* ------------------------- the vault's operations ---------------------- *)

\* The identities whose Unlock succeeds on object a and fails on object b, each
\* with the DEK its Unlock on a returned.
LostAccess(a, b) ==
    {[id |-> u, key |-> UnlockOp(a, u).sf.dek] :
        u \in {x \in Users : UnlockOp(a, x).err = "nil" /\ UnlockOp(b, x).err # "nil"}}

\* The object after call op returned err, with the call recorded.
Sets(v, op, err, lost) ==
    /\ meta' = v.meta
    /\ secrets' = v.secrets
    /\ legacy' = v.legacy
    /\ dek' = v.dek
    /\ last' = [op |-> op, err |-> err, lost |-> lost]

Becomes(v, op, err) == Sets(v, op, err, LostAccess(SF, v))

\* What the commands keep outside the SecretFile object.
\* What the library functions called on their own keep.
libVars == <<seal, fs, mu, rawDoc, proc, disk, stdout>>

\* What the vault and the commands keep.
appVars == <<meta, secrets, legacy, dek, nextDek, last, file, roster, rekey, obs>>

cmdVars == <<file, roster, rekey, obs, libVars>>

\* The names callers pass: two ordinary names, one of them also with a leading
\* space, a blank name and the two reserved names.
KeyInputs == {<<"K">>, <<"J">>, <<SP, "K">>, <<SP>>, MetadataKey, SecretsKey}

Init_(keys) ==
    /\ nextDek <= MaxDek
    /\ LET r == InitOp(SF, keys, nextDek)
       IN  /\ Becomes(r.sf, "Init", r.err)
           /\ nextDek' = IF Len(keys) = 0 THEN nextDek ELSE nextDek + 1
           /\ UNCHANGED cmdVars

RotateRecipients(keys) ==
    LET r == RotateRecipientsOp(SF, keys)
    IN  /\ Becomes(r.sf, "RotateRecipients", r.err)
        /\ UNCHANGED <<nextDek, cmdVars>>

Unlock(id) ==
    LET r == UnlockOp(SF, id)
    IN  /\ Becomes(r.sf, "Unlock", r.err)
        /\ UNCHANGED <<nextDek, cmdVars>>

Lock ==
    LET r == LockOp(SF)
    IN  /\ Becomes(r.sf, "Lock", r.err)
        /\ UNCHANGED <<nextDek, cmdVars>>

SetSecret(key, value) ==
    LET r == SetSecretOp(SF, key, value)
    IN  /\ Becomes(r.sf, "SetSecret", r.err)
        /\ UNCHANGED <<nextDek, cmdVars>>

UnsetSecret(key) ==
    LET r == UnsetSecretOp(SF, key)
    IN  /\ Becomes(r.sf, "UnsetSecret", r.err)
        /\ UNCHANGED <<nextDek, cmdVars>>

GetSecret(key) ==
    LET r == GetSecretOp(SF, key)
    IN  /\ Becomes(SF, "GetSecret", r.err)
        /\ UNCHANGED <<nextDek, cmdVars>>

GetAllSecrets ==
    LET r == GetAllSecretsOp(SF)
    IN  /\ Becomes(SF, "GetAllSecrets", r.err)
        /\ UNCHANGED <<nextDek, cmdVars>>

\* The object NewSecretFile returns, before any call.
Init ==
    /\ meta = NewSecretFile.meta
    /\ secrets = NewSecretFile.secrets
    /\ legacy = NewSecretFile.legacy
    /\ dek = NewSecretFile.dek
    /\ nextDek = 1
    /\ last = [op |-> "NewSecretFile", err |-> "nil", lost |-> {}]
    /\ file = NoFile
    /\ roster = <<>>
    /\ rekey = IdleRekey
    /\ obs = NoRead
    /\ LibIdle

Next ==
    \/ \E keys \in RecipientLists : Init_(keys)
    \/ \E keys \in RecipientLists : RotateRecipients(keys)
    \/ \E id \in Users \cup {NilIdentity} : Unlock(id)
    \/ Lock
    \/ \E key \in KeyInputs, value \in PlainInputs : SetSecret(key, value)
    \/ \E key \in KeyInputs : UnsetSecret(key)
    \/ \E key \in KeyInputs : GetSecret(key)
    \/ GetAllSecrets

Spec == Init /\ [][Next]_vars

(* ------------------------------ observations --------------------------- *)

\* The distinct trimmed non-empty strings of a list.
TrimmedSet(keys) == {TrimSpace(keys[i]) : i \in DOMAIN keys} \ {<<>>}

\* Object v as it is, after Lock, and after Save and LoadSecretFile.
Openings(v) == {v, LockOp(v).sf, LoadSecretFile(MarshalRawData(v))}

\* Every stored value of object v that carries the seal marker.
SealedValues(v) ==
    {v.secrets[n] : n \in {x \in DOMAIN v.secrets : HasMarker(v.secrets[x])}}
    \cup {v.legacy[n] : n \in {x \in DOMAIN v.legacy : HasMarker(v.legacy[x])}}

(* ------------------------------ the roster ----------------------------- *)

User(name, pubKey) == [name |-> name, pk |-> pubKey]

\* Every order of the elements of a sequence.
Perms(s) ==
    {[i \in DOMAIN s |-> s[f[i]]] :
        f \in {g \in [DOMAIN s -> DOMAIN s] :
                  \A i, j \in DOMAIN s : g[i] = g[j] => i = j}}

\* The order normalizeInPlace sorts by: name, then public key.
UserLess(u, w) ==
    IF u.name = w.name THEN StrLess(u.pk, w.pk) ELSE StrLess(u.name, w.name)

RECURSIVE SortUsers(_)
SortUsers(S) ==
    IF S = {} THEN <<>>
    ELSE LET m == CHOOSE x \in S : \A y \in S \ {x} : UserLess(x, y)
         IN  <<m>> \o SortUsers(S \ {m})

\* A variant of normalizeInPlace that keeps the last entry of each public key.
normalizeInPlace_lastWins(ac) ==
    LET t == [i \in DOMAIN ac |-> User(TrimSpace(ac[i].name), TrimSpace(ac[i].pk))]
        kept == {i \in DOMAIN t :
                    t[i].pk # <<>> /\ \A j \in (i + 1)..Len(t) : t[j].pk # t[i].pk}
    IN  SortUsers({t[i] : i \in kept})

\* A variant of normalizeInPlace that keeps every entry of a public key.
normalizeInPlace_keepsDuplicates(ac) ==
    LET t == [i \in DOMAIN ac |-> User(TrimSpace(ac[i].name), TrimSpace(ac[i].pk))]
        kept == {i \in DOMAIN t :
                    t[i].pk # <<>> /\ \A j \in 1..(i - 1) : t[j] # t[i]}
    IN  SortUsers({t[i] : i \in kept})

\* Manifest.normalizeInPlace: trim, drop empty keys, keep the first entry of
\* each public key, sort.
normalizeInPlace(ac) ==
    LET t == [i \in DOMAIN ac |-> User(TrimSpace(ac[i].name), TrimSpace(ac[i].pk))]
        kept == {i \in DOMAIN t :
                    t[i].pk # <<>> /\ \A j \in 1..(i - 1) : t[j].pk # t[i].pk}
    IN  SortUsers({t[i] : i \in kept})

\* A variant of AddUser that appends before it looks for the public key.
AddUserOp_appendsFirst(ac, rawName, rawPubKey) ==
    LET name == TrimSpace(rawName)
        pubKey == TrimSpace(rawPubKey)
        appended == Append(ac, User(name, pubKey))
    IN  IF name = <<>> THEN [err |-> "ErrInvalidName", acs |-> {ac}]
        ELSE IF pubKey = <<>> THEN [err |-> "ErrInvalidPubKey", acs |-> {ac}]
        ELSE IF \E i \in DOMAIN ac : ac[i].pk = pubKey
        THEN [err |-> "ErrUserExists", acs |-> {appended}]
        ELSE [err |-> "nil",
              acs |-> {p \in Perms(appended) :
                          \A i \in 1..(Len(p) - 1) : ~StrLess(p[i + 1].name, p[i].name)}]

\* Manifest.AddUser: the error and every list the call may leave (sort.Slice by
\* name alone does not fix the order of entries with equal names).
AddUserOp(ac, rawName, rawPubKey) ==
    LET name == TrimSpace(rawName)
        pubKey == TrimSpace(rawPubKey)
        appended == Append(ac, User(name, pubKey))
    IN  IF name = <<>> THEN [err |-> "ErrInvalidName", acs |-> {ac}]
        ELSE IF pubKey = <<>> THEN [err |-> "ErrInvalidPubKey", acs |-> {ac}]
        ELSE IF \E i \in DOMAIN ac : ac[i].pk = pubKey
        THEN [err |-> "ErrUserExists", acs |-> {ac}]
        ELSE [err |-> "nil",
              acs |-> {p \in Perms(appended) :
                          \A i \in 1..(Len(p) - 1) : ~StrLess(p[i + 1].name, p[i].name)}]

\* Manifest.RemoveUser: [found, ac].
RemoveUserOp(ac, rawIdentifier) ==
    LET identifier == TrimSpace(rawIdentifier)
        Stays(u) == ~(u.name = identifier \/ u.pk = identifier)
        newUsers == SelectSeq(ac, Stays)
    IN  IF identifier = <<>> THEN [found |-> FALSE, ac |-> ac]
        ELSE IF newUsers = ac THEN [found |-> FALSE, ac |-> ac]
        ELSE [found |-> TRUE, ac |-> newUsers]

RemoveUserStrictOp(ac, identifier) ==
    LET r == RemoveUserOp(ac, identifier)
    IN  [err |-> IF r.found THEN "nil" ELSE "ErrUserNotFound", ac |-> r.ac]

GetPublicKeys(ac) ==
    LET HasKey(u) == u.pk # <<>>
        users == SelectSeq(ac, HasKey)
    IN  [i \in DOMAIN users |-> users[i].pk]

\* aliasRe: an alias is one run of two or more letters, digits, "_", "." or "-".
aliasRe(alias) == alias \in {<<"alice">>, <<"bob">>}

\* The arguments the roster commands are run with.
AliasInputs == {<<"alice">>, <<SP, "bob">>, <<"al!ce">>, <<SP>>}
AddKeyInputs == {<<"age1a">>, <<SP, "age1b">>, <<"bad">>}
IdentifierInputs == {<<"alice">>, <<SP, "bob">>, <<"age1b">>, <<"carol">>, <<SP>>}

\* A command of the shell that does not open the secrets file; commands run
\* one after the other.
OtherCommand(op, err) ==
    /\ rekey.pc = "idle"
    /\ last' = [op |-> op, err |-> err, lost |-> {}]
    /\ UNCHANGED <<meta, secrets, legacy, dek, nextDek, rekey, obs, libVars>>

\* envseal users add <alias> <public_key>
UsersAdd(rawAlias, rawPubKey) ==
    LET alias == TrimSpace(rawAlias)
        pubKey == TrimSpace(rawPubKey)
        r == AddUserOp(normalizeInPlace(roster), alias, pubKey)
        err == IF alias = <<>> THEN "ErrAliasEmpty"
               ELSE IF ~aliasRe(alias) THEN "ErrInvalidAlias"
               ELSE IF ~ParsesAsRecipient(pubKey) THEN "ErrInvalidPubKeyFormat"
               ELSE r.err
    IN  /\ roster' \in (IF err = "nil" THEN r.acs ELSE {roster})
        /\ OtherCommand("users add", err)
        /\ UNCHANGED file

\* A variant of users remove that also deletes the removed user's entry from
\* the recipient list of the secrets file.
UsersRemove_revokes(rawIdentifier) ==
    LET m == normalizeInPlace(roster)
        r == RemoveUserStrictOp(m, rawIdentifier)
        gone == {m[i].pk : i \in DOMAIN m} \ {r.ac[i].pk : i \in DOMAIN r.ac}
        Stays(e) == e.arg \notin gone
    IN  /\ roster' = r.ac
        /\ OtherCommand("users remove", r.err)
        /\ file' = [file EXCEPT !.meta.recipients = SelectSeq(@, Stays)]

\* envseal users remove <alias_or_pubkey>
UsersRemove(rawIdentifier) ==
    LET identifier == TrimSpace(rawIdentifier)
        r == RemoveUserStrictOp(normalizeInPlace(roster), identifier)
        err == IF identifier = <<>> THEN "ErrIdentifierEmpty" ELSE r.err
    IN  /\ roster' = IF err = "nil" THEN r.ac ELSE roster
        /\ OtherCommand("users remove", err)
        /\ UNCHANGED file

(* ------------------------- the roster's methods ------------------------ *)

\* LoadManifest of a document with the given access_control list.
LoadManifest(ac) == normalizeInPlace(ac)

\* The access_control lists of hand-edited envseal.yaml files: unsorted, with
\* an untrimmed name and a repeated public key; an entry without a name; an
\* entry without a public key; two entries of one name; a name with a
\* character outside the alias pattern.
RawRosters ==
    { <<User(<<SP, "bob">>, <<"age1b">>), User(<<"alice">>, <<"age1a">>),
        User(<<"bob">>, <<"age1a">>)>>,
      <<User(<<>>, <<"age1a">>)>>,
      <<User(<<"alice">>, <<SP>>)>>,
      <<User(<<"alice">>, <<"age1b">>), User(<<"alice">>, <<"age1a">>)>>,
      <<User(<<"al!ce">>, <<"age1b">>)>> }

\* ensureManifest of "envseal init": one entry named after the operating
\* system's user (here "alice" or the one-letter "a"), with the identity's key.
InitManifests == {<<User(n, PubKeyOf("A"))>> : n \in {<<"alice">>, <<"a">>}}

\* The arguments the roster's methods are called with.
NameInputs == {<<"alice">>, <<SP, "bob">>, <<"al!ce">>, <<SP>>}
RosterKeyInputs == {<<"age1a">>, <<SP, "age1b">>, <<"bad">>, <<SP>>}

\* A call of a method of the Manifest.
RosterCall(op, err) ==
    /\ last' = [op |-> op, err |-> err, lost |-> {}]
    /\ UNCHANGED <<meta, secrets, legacy, dek, nextDek, file, rekey, obs, libVars>>

AddUser(rawName, rawPubKey) ==
    LET r == AddUserOp(roster, rawName, rawPubKey)
    IN  /\ roster' \in r.acs
        /\ RosterCall("AddUser", r.err)

RemoveUser(rawIdentifier) ==
    LET r == RemoveUserOp(roster, rawIdentifier)
    IN  /\ roster' = r.ac
        /\ RosterCall("RemoveUser", IF r.found THEN "nil" ELSE "false")

RemoveUserStrict(rawIdentifier) ==
    LET r == RemoveUserStrictOp(roster, rawIdentifier)
    IN  /\ roster' = r.ac
        /\ RosterCall("RemoveUserStrict", r.err)

\* Manifest.Save, then LoadManifest by the next command.
SaveAndLoad ==
    /\ roster' = LoadManifest(roster)
    /\ RosterCall("LoadManifest", "nil")

(* ------------------------------ rekey ---------------------------------- *)

\* A DEK that no GenerateDEK of a behaviour returns.
ForeignDek == MaxDek + 1

\* The stored form of plaintext p sealed under key k.
Sealed(p, k) == wrapEncrypted(EncryptValue(Str(p), k).ct)

\* A vault initialised for both users (DEK 1), holding the given entries.
Doc(canonical, toplevel) ==
    MarshalRawData([InitOp(NewSecretFile, <<PubKeyOf("A"), PubKeyOf("B")>>, 1).sf
                       EXCEPT !.secrets = canonical, !.legacy = toplevel])

\* The secrets files a rekey is run against: two sealed secrets; one of them
\* at a legacy top-level key; one sealed under another DEK; a name with a
\* leading space, alone and next to its trimmed form; a reserved name inside
\* the secrets map; a scalar that is not a string.
Documents ==
    { Doc(MapSet(MapSet(EmptyMap, <<"K">>, Sealed("v", 1)), <<"J">>, Sealed("w", 1)),
          EmptyMap),
      Doc(MapSet(EmptyMap, <<"K">>, Sealed("v", 1)),
          MapSet(EmptyMap, <<"J">>, Sealed("w", 1))),
      Doc(MapSet(MapSet(EmptyMap, <<"K">>, Sealed("v", 1)), <<"J">>, Sealed("w", ForeignDek)),
          EmptyMap),
      Doc(MapSet(EmptyMap, <<SP, "K">>, Sealed("v", 1)), EmptyMap),
      Doc(MapSet(MapSet(EmptyMap, <<"K">>, Sealed("v", 1)), <<SP, "K">>, Sealed("w", 1)),
          EmptyMap),
      Doc(MapSet(MapSet(EmptyMap, <<"K">>, Sealed("v", 1)), MetadataKey, Sealed("w", 1)),
          EmptyMap),
      Doc(MapSet(MapSet(EmptyMap, <<"K">>, Sealed("v", 1)), <<"J">>, IntVal("5")),
          EmptyMap) }

\* runRekey up to the mode switch: load the manifest and the secrets file,
\* Unlock, read the target recipients.
RekeyOpen(identity) ==
    LET manifest == normalizeInPlace(roster)
        sf0 == LoadSecretFile(file)
        u == UnlockOp(sf0, identity)
        recipients == GetPublicKeys(manifest)
    IN  IF u.err # "nil"
        THEN [err |-> "ErrUnlock", sf |-> sf0, recipients |-> recipients]
        ELSE IF Len(recipients) = 0
        THEN [err |-> "ErrNoRecipients", sf |-> u.sf, recipients |-> recipients]
        ELSE [err |-> "nil", sf |-> u.sf, recipients |-> recipients]

\* envseal rekey (standard mode), the deferred Lock included.
RekeyStandard(identity) ==
    /\ rekey.pc = "idle"
    /\ LET o == RekeyOpen(identity)
           r == RotateRecipientsOp(o.sf, o.recipients)
           err == IF o.err # "nil" THEN o.err ELSE r.err
           end == IF o.err # "nil" THEN o.sf ELSE r.sf
           saved == IF err = "nil" THEN MarshalRawData(r.sf) ELSE file
       IN  /\ file' = saved
           /\ Sets(LockOp(end).sf, "rekey", err,
                   LostAccess(LoadSecretFile(file), LoadSecretFile(saved)))
    /\ UNCHANGED <<nextDek, roster, rekey, obs, libVars>>

\* envseal rekey --rotate, up to the return of GetAllSecrets.
RekeyRotateBegin(identity) ==
    /\ rekey.pc = "idle"
    /\ nextDek <= MaxDek
    /\ LET o == RekeyOpen(identity)
           a == GetAllSecretsOp(o.sf)
       IN  IF o.err # "nil"
           THEN /\ Sets(LockOp(o.sf).sf, "rekey --rotate", o.err, {})
                /\ UNCHANGED rekey
           ELSE /\ Sets(o.sf, "GetAllSecrets", a.err, {})
                /\ rekey' = [pc |-> "init", target |-> o.recipients, all |-> a.out,
                             todo |-> {}, pre |-> o.sf]
    /\ obs' = NoRead
    /\ UNCHANGED <<nextDek, file, roster, libVars>>

\* sf.Init(recipients)
RekeyInit ==
    /\ rekey.pc = "init"
    /\ LET r == InitOp(SF, rekey.target, nextDek)
       IN  /\ Sets(r.sf, "Init", r.err, {})
           /\ rekey' = IF r.err = "nil"
                       THEN [rekey EXCEPT !.pc = "loop", !.todo = DOMAIN rekey.all]
                       ELSE [rekey EXCEPT !.pc = "failed"]
    /\ nextDek' = nextDek + 1
    /\ UNCHANGED <<file, roster, obs, libVars>>

\* One iteration of "for k, v := range all": sf.SetSecret(k, v), in any order.
RekeySetSecret ==
    /\ rekey.pc = "loop"
    /\ \E k \in rekey.todo :
          LET r == SetSecretOp(SF, k, rekey.all[k])
          IN  /\ Sets(r.sf, "SetSecret", r.err, {})
              /\ rekey' = IF r.err = "nil"
                          THEN [rekey EXCEPT !.todo = @ \ {k}]
                          ELSE [rekey EXCEPT !.pc = "failed"]
    /\ UNCHANGED <<nextDek, file, roster, obs, libVars>>

\* sf.Save() after the loop.
RekeySave ==
    /\ rekey.pc = "loop"
    /\ rekey.todo = {}
    /\ file' = MarshalRawData(SF)
    /\ rekey' = [rekey EXCEPT !.pc = "done"]
    /\ last' = [op |-> "rekey --rotate", err |-> "nil",
                lost |-> LostAccess(LoadSecretFile(file), LoadSecretFile(file'))]
    /\ UNCHANGED <<meta, secrets, legacy, dek, nextDek, roster, obs, libVars>>

\* runRekey returns (with an error or after Save): the deferred sf.Lock().
RekeyReturn ==
    /\ rekey.pc \in {"failed", "done"}
    /\ Sets(LockOp(SF).sf, "Lock", "nil", {})
    /\ rekey' = IdleRekey
    /\ UNCHANGED <<nextDek, file, roster, obs, libVars>>

\* Object v wraps a DEK other than old in its metadata while a stored value
\* is still sealed under old.
PartialRotation(v, old) ==
    /\ v.dek # old
    /\ \E i \in DOMAIN v.meta.recipients : v.meta.recipients[i].enc.key = v.dek
    /\ \E s \in SealedValues(v) : Head(s.ks) = old

\* A goroutine that shares the SecretFile calls GetAllSecrets between two
\* calls of the rotation (the object's lock is free there).
ConcurrentGetAllSecrets ==
    /\ rekey.pc \in {"init", "loop"}
    /\ LET r == GetAllSecretsOp(SF)
       IN  obs' = [by |-> "GetAllSecrets", err |-> r.err,
                   partial |-> PartialRotation(SF, rekey.pre.dek)]
    /\ UNCHANGED <<meta, secrets, legacy, dek, nextDek, last, file, roster, rekey, libVars>>

\* A working copy with a secrets file and a roster of both users.
InitRekey ==
    /\ file \in Documents
    /\ roster = <<User(<<"alice">>, PubKeyOf("A")), User(<<"bob">>, PubKeyOf("B"))>>
    /\ meta = NewSecretFile.meta
    /\ secrets = NewSecretFile.secrets
    /\ legacy = NewSecretFile.legacy
    /\ dek = NewSecretFile.dek
    /\ nextDek = 2
    /\ last = [op |-> "none", err |-> "nil", lost |-> {}]
    /\ rekey = IdleRekey
    /\ obs = NoRead
    /\ LibIdle

NextRekey ==
    \/ \E alias \in AliasInputs, pubKey \in AddKeyInputs : UsersAdd(alias, pubKey)
    \/ \E identifier \in IdentifierInputs : UsersRemove(identifier)
    \/ \E identity \in Users : RekeyStandard(identity)
    \/ \E identity \in Users : RekeyRotateBegin(identity)
    \/ RekeyInit
    \/ RekeySetSecret
    \/ RekeySave
    \/ RekeyReturn
    \/ ConcurrentGetAllSecrets

SpecRekey == InitRekey /\ [][NextRekey]_vars

(* ------------------------- the roster on its own ----------------------- *)

\* The Manifest a command starts from: none on disk, one LoadManifest read,
\* or the one "envseal init" has just created.
InitRoster ==
    /\ roster \in {<<>>} \cup {LoadManifest(ac) : ac \in RawRosters} \cup InitManifests
    /\ meta = NewSecretFile.meta
    /\ secrets = NewSecretFile.secrets
    /\ legacy = NewSecretFile.legacy
    /\ dek = NewSecretFile.dek
    /\ nextDek = 1
    /\ last = [op |-> "none", err |-> "nil", lost |-> {}]
    /\ file = NoFile
    /\ rekey = IdleRekey
    /\ obs = NoRead
    /\ LibIdle

NextRoster ==
    \/ \E name \in NameInputs, pubKey \in RosterKeyInputs : AddUser(name, pubKey)
    \/ \E identifier \in NameInputs \cup RosterKeyInputs : RemoveUser(identifier)
    \/ \E identifier \in NameInputs \cup RosterKeyInputs : RemoveUserStrict(identifier)
    \/ SaveAndLoad

SpecRoster == InitRoster /\ [][NextRoster]_vars

(* ------------------------- loading the roster -------------------------- *)

\* The entries and the access_control lists of the documents that are loaded:
\* names and public keys with and without surrounding space, empty ones, and
\* the same public key under two names.
RawUsers ==
    {User(n, k) : n \in {<<"alice">>, <<SP, "bob">>, <<>>},
                  k \in {<<"age1a">>, <<SP, "age1a">>, <<"age1b">>, <<SP>>}}
RawLists == UNION {[1..n -> RawUsers] : n \in 0..MaxRaw}

\* LoadManifest: yaml.Unmarshal has read rawDoc; m.normalizeInPlace().
LoadManifestCall ==
    /\ last.op = "yaml.Unmarshal"
    /\ roster' = LoadManifest(rawDoc)
    /\ last' = [op |-> "LoadManifest", err |-> "nil", lost |-> {}]
    /\ UNCHANGED <<meta, secrets, legacy, dek, nextDek, file, rekey, obs, libVars>>

\* normalizeInPlace once more, on the Manifest LoadManifest returned.
Renormalize ==
    /\ last.op # "yaml.Unmarshal"
    /\ roster' = normalizeInPlace(roster)
    /\ last' = [op |-> "normalizeInPlace", err |-> "nil", lost |-> {}]
    /\ UNCHANGED <<meta, secrets, legacy, dek, nextDek, file, rekey, obs, libVars>>

\* envseal.yaml has been read and unmarshalled.
InitLoad ==
    /\ rawDoc \in RawLists
    /\ roster = rawDoc
    /\ last = [op |-> "yaml.Unmarshal", err |-> "nil", lost |-> {}]
    /\ seal = NoSeal /\ fs = NoFs /\ mu = NoMu /\ proc = NoProc /\ disk = NoDisk /\ stdout = <<>>
    /\ meta = NewSecretFile.meta
    /\ secrets = NewSecretFile.secrets
    /\ legacy = NewSecretFile.legacy
    /\ dek = NewSecretFile.dek
    /\ nextDek = 1
    /\ file = NoFile
    /\ rekey = IdleRekey
    /\ obs = NoRead

NextLoad ==
    \/ LoadManifestCall
    \/ Renormalize

SpecLoad == InitLoad /\ [][NextLoad]_vars

(* ------------------------- the set command --------------------------- *)

\* One argument of "envseal set": strings.Cut(a, "=") gives the text before
\* the first "=", the text after it, and whether there is an "=".
Arg(k, v, ok) == [k |-> k, v |-> v, ok |-> ok]

\* The arguments the command is run with: an ordinary pair, a pair for a
\* reserved name, a word without "=", a pair whose key is blank.
ArgInputs ==
    { Arg(<<"K">>, "w", TRUE), Arg(<<SP, "_envseal">>, "v", TRUE),
      Arg(<<"K">>, "", FALSE), Arg(<<SP>>, "v", TRUE) }
ArgLists == UNION {[1..n -> ArgInputs] : n \in 1..2}

validateSetArgs(args) ==
    IF \E i \in DOMAIN args : ~args[i].ok THEN "ErrExpectedKeyValue"
    ELSE IF \E i \in DOMAIN args : TrimSpace(args[i].k) = <<>> THEN "ErrEmptyKeyArg"
    ELSE "nil"

\* The loop of runSet over the pairs: stops at the first SetSecret that fails.
RECURSIVE SetPairs(_, _)
SetPairs(v, pairs) ==
    IF pairs = <<>> THEN Ret(v, "nil")
    ELSE LET r == SetSecretOp(v, TrimSpace(Head(pairs).k), Str(Head(pairs).v))
         IN  IF r.err # "nil" THEN r ELSE SetPairs(r.sf, Tail(pairs))

\* A variant of runSet that saves after every pair it has set.
RECURSIVE SavesEach(_, _, _)
SavesEach(doc, v, pairs) ==
    IF pairs = <<>> THEN [err |-> "nil", sf |-> v, doc |-> doc]
    ELSE LET r == SetSecretOp(v, TrimSpace(Head(pairs).k), Str(Head(pairs).v))
         IN  IF r.err # "nil" THEN [err |-> r.err, sf |-> v, doc |-> doc]
             ELSE SavesEach(MarshalRawData(r.sf), r.sf, Tail(pairs))

RunSetOp_savesEach(doc, identity, args) ==
    LET sf0 == LoadSecretFile(doc)
        u == UnlockOp(sf0, identity)
    IN  IF validateSetArgs(args) # "nil"
        THEN [err |-> validateSetArgs(args), sf |-> sf0, doc |-> doc]
        ELSE IF u.err # "nil" THEN [err |-> "ErrUnlock", sf |-> sf0, doc |-> doc]
        ELSE SavesEach(doc, u.sf, args)

\* runSet, after validateSetArgs: the error, the object when the function
\* returns (before the deferred Lock) and the file it leaves on disk.
RunSetOp(doc, identity, args) ==
    LET sf0 == LoadSecretFile(doc)
        u == UnlockOp(sf0, identity)
        r == SetPairs(u.sf, args)
    IN  IF validateSetArgs(args) # "nil"
        THEN [err |-> validateSetArgs(args), sf |-> sf0, doc |-> doc]
        ELSE IF u.err # "nil" THEN [err |-> "ErrUnlock", sf |-> sf0, doc |-> doc]
        ELSE IF r.err # "nil" THEN [err |-> r.err, sf |-> r.sf, doc |-> doc]
        ELSE [err |-> "nil", sf |-> r.sf, doc |-> MarshalRawData(r.sf)]

\* envseal set KEY=VALUE [KEY=VALUE...], the deferred Lock included.
RunSet(identity, args) ==
    /\ rekey.pc = "idle"
    /\ LET r == RunSetOp(file, identity, args)
       IN  /\ file' = r.doc
           /\ Sets(LockOp(r.sf).sf, "set", r.err, {})
    /\ UNCHANGED <<nextDek, roster, rekey, obs, libVars>>

\* A working copy whose roster lists both users, or one user and an entry
\* whose public key does not parse (a hand-edited envseal.yaml).
InitCommands ==
    /\ file \in Documents
    /\ roster \in {<<User(<<"alice">>, PubKeyOf("A")), User(<<"bob">>, PubKeyOf("B"))>>,
                   <<User(<<"alice">>, PubKeyOf("A")), User(<<"bob">>, <<"bad">>)>>}
    /\ meta = NewSecretFile.meta
    /\ secrets = NewSecretFile.secrets
    /\ legacy = NewSecretFile.legacy
    /\ dek = NewSecretFile.dek
    /\ nextDek = 2
    /\ last = [op |-> "none", err |-> "nil", lost |-> {}]
    /\ rekey = IdleRekey
    /\ obs = NoRead
    /\ LibIdle

NextCommands ==
    \/ \E identity \in Users, args \in ArgLists : RunSet(identity, args)
    \/ \E identity \in Users : RekeyStandard(identity)
    \/ \E identity \in Users : RekeyRotateBegin(identity)
    \/ RekeyInit
    \/ RekeySetSecret
    \/ RekeySave
    \/ RekeyReturn

SpecCommands == InitCommands /\ [][NextCommands]_vars

(* ------------------------- loaded vaults ------------------------------- *)

\* The document with the given metadata block and entries.
DocWith(block, canonical, toplevel) ==
    [exists |-> TRUE, meta |-> block, secrets |-> canonical, legacy |-> toplevel]

\* The DEK (1) wrapped for the given users.
WrappedFor(us) == InitOp(NewSecretFile, [i \in DOMAIN us |-> PubKeyOf(us[i])], 1).sf.meta

\* The secrets files the API is called on after LoadSecretFile: no file; a
\* secret stored both in the secrets map and, with another secret, at the
\* legacy top level; unsealed and non-string entries; a file without a
\* metadata block; a metadata block that does not decode; an empty recipient
\* list; a wrapped key of the wrong length next to one for no known identity;
\* a value sealed under another DEK next to a tampered one that hides a sound
\* legacy entry.
LoadedDocuments ==
    { NoFile,
      DocWith(WrappedFor(<<"A", "B">>),
              MapSet(EmptyMap, <<"K">>, Sealed("v", 1)),
              MapSet(MapSet(EmptyMap, <<"K">>, Str("old")), <<"J">>, Sealed("w", 1))),
      DocWith(WrappedFor(<<"A">>),
              MapSet(EmptyMap, <<"K">>, Str("plain")),
              MapSet(EmptyMap, <<"J">>, IntVal("5"))),
      DocWith(NoMeta, MapSet(EmptyMap, <<"K">>, Sealed("v", 1)), EmptyMap),
      DocWith(MalformedMeta, MapSet(EmptyMap, <<"K">>, Sealed("v", 1)), EmptyMap),
      DocWith(Metadata(<<>>), MapSet(EmptyMap, <<"K">>, Sealed("v", 1)), EmptyMap),
      DocWith(Metadata(<<[arg |-> PubKeyOf("A"), enc |-> [to |-> PubKeyOf("A"), key |-> 0]],
                         [arg |-> <<"bad">>, enc |-> [to |-> <<"bad">>, key |-> 1]]>>),
              MapSet(EmptyMap, <<"K">>, Sealed("v", 1)), EmptyMap),
      DocWith(WrappedFor(<<"A">>),
              MapSet(MapSet(EmptyMap, <<"K">>, Sealed("v", ForeignDek)), <<"J">>, Tampered("w")),
              MapSet(EmptyMap, <<"J">>, Sealed("w", 1))) }

\* The object LoadSecretFile returns for one of the documents.
InitLoaded ==
    /\ file \in LoadedDocuments
    /\ meta = LoadSecretFile(file).meta
    /\ secrets = LoadSecretFile(file).secrets
    /\ legacy = LoadSecretFile(file).legacy
    /\ dek = LoadSecretFile(file).dek
    /\ nextDek = 2
    /\ last = [op |-> "LoadSecretFile", err |-> "nil", lost |-> {}]
    /\ roster = <<>>
    /\ rekey = IdleRekey
    /\ obs = NoRead
    /\ LibIdle

\* The calls made on a loaded vault (a loaded vault is not initialised again).
NextLoaded ==
    \/ \E keys \in RecipientLists : RotateRecipients(keys)
    \/ \E id \in Users \cup {NilIdentity} : Unlock(id)
    \/ Lock
    \/ \E key \in KeyInputs, value \in PlainInputs : SetSecret(key, value)
    \/ \E key \in KeyInputs : UnsetSecret(key)
    \/ \E key \in KeyInputs : GetSecret(key)
    \/ GetAllSecrets

SpecLoaded == InitLoaded /\ [][NextLoaded]_vars

(* ------------------------- a command's exit paths --------------------- *)

\* The commands that unlock the vault; checkSecretsAccess is doctor's check.
UnlockingCommands == {"set", "unset", "rekey", "print", "exec", "doctor"}

\* What the other variables of a command's process do not see.
procFrame == <<nextDek, file, roster, rekey, obs, seal, fs, mu, rawDoc, disk, stdout>>

\* The command loads the secrets file and calls sf.Unlock(identity); when it
\* succeeds the Lock is deferred, when it fails the command returns the error.
CmdUnlock ==
    /\ proc.pc = "start"
    /\ LET u == UnlockOp(LoadSecretFile(file), proc.id)
       IN  /\ Sets(u.sf, "Unlock", u.err, {})
           /\ proc' = IF u.err = "nil"
                       THEN [proc EXCEPT !.pc = "body", !.unlocked = TRUE]
                       ELSE [proc EXCEPT !.pc = "exited", !.exit = "error"]
    /\ UNCHANGED procFrame

\* The function returns, with nil or with an error of one of its steps (the
\* access check of doctor returns nil right after Unlock).
CmdReturn(result) ==
    /\ proc.pc = "body"
    /\ proc.cmd = "doctor" => result = "nil"
    /\ proc' = [proc EXCEPT !.pc = "deferred", !.exit = result]
    /\ UNCHANGED <<meta, secrets, legacy, dek, last, procFrame>>

\* exec: child.Wait() returns an *exec.ExitError and exitWithChildCode calls
\* os.Exit with the child's status; the process ends there.
ChildExits ==
    /\ proc.pc = "body"
    /\ proc.cmd = "exec"
    /\ proc' = [proc EXCEPT !.pc = "exited", !.exit = "os.Exit"]
    /\ UNCHANGED <<meta, secrets, legacy, dek, last, procFrame>>

\* The deferred sf.Lock() runs, then the command terminates.
DeferredLock ==
    /\ proc.pc = "deferred"
    /\ Sets(LockOp(SF).sf, "Lock", "nil", {})
    /\ proc' = [proc EXCEPT !.pc = "exited", !.lockCalls = @ + 1]
    /\ UNCHANGED procFrame

\* A command is started by one of the users on one of the secrets files.
InitExit ==
    /\ proc \in {[NoProc EXCEPT !.cmd = c, !.id = u, !.pc = "start"] :
                    c \in UnlockingCommands, u \in Users}
    /\ file \in LoadedDocuments
    /\ meta = NewSecretFile.meta
    /\ secrets = NewSecretFile.secrets
    /\ legacy = NewSecretFile.legacy
    /\ dek = NewSecretFile.dek
    /\ nextDek = 2
    /\ last = [op |-> "none", err |-> "nil", lost |-> {}]
    /\ roster = <<>>
    /\ rekey = IdleRekey
    /\ obs = NoRead
    /\ seal = NoSeal /\ fs = NoFs /\ mu = NoMu /\ rawDoc = <<>> /\ disk = NoDisk /\ stdout = <<>>

NextExit ==
    \/ CmdUnlock
    \/ \E result \in {"nil", "error"} : CmdReturn(result)
    \/ ChildExits
    \/ DeferredLock

SpecExit == InitExit /\ [][NextExit]_vars

(* ------------------------- envseal init -------------------------------- *)

\* How often init is run in a row.
MaxRuns == 2

\* The three files as one value: the identity file, envseal.yaml and the
\* secrets file.
Files(d, secretsFile) == <<d.identity, d.manifest, secretsFile>>

\* The name init gives the first user: "admin" or the name of the operating
\* system's user, untested.
InitUserNames == {<<"alice">>, <<"a">>}

\* The example secret init stores, HELLO.
HelloKey == <<"K">>
HelloValue == Str("v")

\* ensureIdentity on the files d: [d, err, pubKey].  An identity file that
\* exists is loaded, never written; `generated` is the user whose key pair
\* Generate returns, `fails` says that a step (Stat, MkdirAll, Generate, the
\* write) fails.
ensureIdentity(d, generated, fails) ==
    IF d.identity.exists
    THEN IF d.identity.key \notin Users
         THEN [d |-> d, err |-> "ErrReadIdentity", pubKey |-> <<>>]
         ELSE [d |-> d, err |-> "nil", pubKey |-> PubKeyOf(d.identity.key)]
    ELSE IF fails THEN [d |-> d, err |-> "ErrIdentity", pubKey |-> <<>>]
    ELSE [d |-> [d EXCEPT !.identity = [exists |-> TRUE, key |-> generated]],
          err |-> "nil", pubKey |-> PubKeyOf(generated)]

\* A variant that writes envseal.yaml whether or not it exists.
ensureManifest_overwrites(d, userName, pubKey, fails) ==
    IF fails THEN [d |-> d, err |-> "ErrManifest"]
    ELSE [d |-> [d EXCEPT !.manifest = [exists |-> TRUE,
                                        users |-> <<User(userName, pubKey)>>]],
          err |-> "nil"]

\* ensureManifest: [d, err].
ensureManifest(d, userName, pubKey, fails) ==
    IF d.manifest.exists THEN [d |-> d, err |-> "nil"]
    ELSE IF fails THEN [d |-> d, err |-> "ErrManifest"]
    ELSE [d |-> [d EXCEPT !.manifest = [exists |-> TRUE,
                                        users |-> <<User(userName, pubKey)>>]],
          err |-> "nil"]

\* ensureSecretsFile on the secrets file doc: [doc, err].
ensureSecretsFile(doc, pubKey, fails) ==
    IF doc.exists THEN [doc |-> doc, err |-> "nil"]
    ELSE LET i == InitOp(NewSecretFile, <<pubKey>>, 1)
             s == SetSecretOp(i.sf, HelloKey, HelloValue)
         IN  IF i.err # "nil" THEN [doc |-> doc, err |-> i.err]
             ELSE IF s.err # "nil" THEN [doc |-> doc, err |-> s.err]
             ELSE IF fails THEN [doc |-> doc, err |-> "ErrSave"]
             ELSE [doc |-> MarshalRawData(s.sf), err |-> "nil"]

\* What a step of init leaves alone.
initFrame ==
    <<meta, secrets, legacy, dek, nextDek, last, roster, rekey, obs, seal, fs, mu, rawDoc, proc,
      stdout>>

\* runInit returns.
Returns(d, err) == [d EXCEPT !.pc = "done", !.result = err]

\* envseal init is started: runInit up to the call of ensureIdentity.
RunInit ==
    /\ disk.pc \in {"idle", "done"}
    /\ disk.runs < MaxRuns
    /\ disk' = [disk EXCEPT !.pc = "ensureIdentity", !.pubKey = <<>>, !.result = "none",
                            !.runs = @ + 1, !.before = Files(disk, file),
                            !.prevNil = (disk.result = "nil")]
    /\ UNCHANGED <<file, initFrame>>

EnsureIdentity(generated, fails) ==
    /\ disk.pc = "ensureIdentity"
    /\ LET r == ensureIdentity(disk, generated, fails)
       IN  disk' = IF r.err # "nil" THEN Returns(r.d, r.err)
                   ELSE [r.d EXCEPT !.pc = "resolveProjectName", !.pubKey = r.pubKey]
    /\ UNCHANGED <<file, initFrame>>

\* resolveProjectName: the flag, or the name of the working directory.
ResolveProjectName(fails) ==
    /\ disk.pc = "resolveProjectName"
    /\ disk' = IF fails THEN Returns(disk, "ErrProjectName")
               ELSE [disk EXCEPT !.pc = "ensureManifest"]
    /\ UNCHANGED <<file, initFrame>>

EnsureManifest(userName, fails) ==
    /\ disk.pc = "ensureManifest"
    /\ LET r == ensureManifest(disk, userName, disk.pubKey, fails)
       IN  disk' = IF r.err # "nil" THEN Returns(r.d, r.err)
                   ELSE [r.d EXCEPT !.pc = "ensureSecretsFile"]
    /\ UNCHANGED <<file, initFrame>>

EnsureSecretsFile(fails) ==
    /\ disk.pc = "ensureSecretsFile"
    /\ LET r == ensureSecretsFile(file, disk.pubKey, fails)
       IN  /\ file' = r.doc
           /\ disk' = Returns(disk, r.err)
    /\ UNCHANGED initFrame

\* The directory before the first run: each file missing or there, the
\* identity file possibly with a content that is no key.
InitInit ==
    /\ disk \in {[NoDisk EXCEPT !.identity = i, !.manifest = mf] :
                    i \in {[exists |-> FALSE, key |-> "none"],
                           [exists |-> TRUE, key |-> "A"],
                           [exists |-> TRUE, key |-> "B"],
                           [exists |-> TRUE, key |-> "garbage"]},
                    mf \in {[exists |-> FALSE, users |-> <<>>],
                            [exists |-> TRUE, users |-> <<>>],
                            [exists |-> TRUE, users |-> <<User(<<"bob">>, PubKeyOf("B"))>>]}}
    /\ file \in LoadedDocuments
    /\ meta = NewSecretFile.meta
    /\ secrets = NewSecretFile.secrets
    /\ legacy = NewSecretFile.legacy
    /\ dek = NewSecretFile.dek
    /\ nextDek = 2
    /\ last = [op |-> "none", err |-> "nil", lost |-> {}]
    /\ roster = <<>>
    /\ rekey = IdleRekey
    /\ obs = NoRead
    /\ seal = NoSeal /\ fs = NoFs /\ mu = NoMu /\ rawDoc = <<>> /\ proc = NoProc
    /\ stdout = <<>>

NextInit ==
    \/ RunInit
    \/ \E generated \in Users, fails \in BOOLEAN : EnsureIdentity(generated, fails)
    \/ \E fails \in BOOLEAN : ResolveProjectName(fails)
    \/ \E userName \in InitUserNames, fails \in BOOLEAN : EnsureManifest(userName, fails)
    \/ \E fails \in BOOLEAN : EnsureSecretsFile(fails)

SpecInit == InitInit /\ [][NextInit]_vars

(* ------------------------- the unset command --------------------------- *)

\* How many arguments the command is given at most.
MaxUnsetArgs == 3

\* The arguments the command is run with: a stored name, the same name with a
\* leading space, a second name, a reserved name, a blank argument.
UnsetArgs == {<<"K">>, <<SP, "K">>, <<"J">>, MetadataKey, <<SP>>}
UnsetArgLists == UNION {[1..n -> UnsetArgs] : n \in 0..MaxUnsetArgs}

validateUnsetArgs(args) ==
    IF Len(args) = 0 THEN "ErrMinimumNArgs"
    ELSE IF \E i \in DOMAIN args : TrimSpace(args[i]) = <<>> THEN "ErrEmptyKeyArg"
    ELSE "nil"

\* normalizeKeys, with the keys already appended in `seen`.
RECURSIVE normalizeKeysFrom(_, _)
normalizeKeysFrom(args, seen) ==
    IF args = <<>> THEN <<>>
    ELSE LET k == TrimSpace(Head(args))
         IN  IF k = <<>> \/ k \in seen THEN normalizeKeysFrom(Tail(args), seen)
             ELSE <<k>> \o normalizeKeysFrom(Tail(args), seen \cup {k})

normalizeKeys(args) == normalizeKeysFrom(args, {})

\* A line of the command's output.
Line(kind, key) == [line |-> kind, key |-> key]

\* A variant of the loop that gives up at the first key it cannot remove.
RECURSIVE UnsetKeys_stopsAtFailure(_, _)
UnsetKeys_stopsAtFailure(v, keys) ==
    IF keys = <<>> THEN [sf |-> v, out |-> <<>>, removed |-> 0]
    ELSE LET r == UnsetSecretOp(v, Head(keys))
         IN  IF r.err # "nil"
             THEN [sf |-> r.sf, out |-> <<Line("warning", Head(keys))>>, removed |-> 0]
             ELSE LET rest == UnsetKeys_stopsAtFailure(r.sf, Tail(keys))
                  IN  [sf |-> rest.sf,
                       out |-> <<Line("unset", Head(keys))>> \o rest.out,
                       removed |-> rest.removed + 1]

\* The loop of runUnset over the keys: the object, the lines printed and the
\* number of keys removed.
RECURSIVE UnsetKeys(_, _)
UnsetKeys(v, keys) ==
    IF keys = <<>> THEN [sf |-> v, out |-> <<>>, removed |-> 0]
    ELSE LET r == UnsetSecretOp(v, Head(keys))
             rest == UnsetKeys(r.sf, Tail(keys))
         IN  [sf |-> rest.sf,
              out |-> <<Line(IF r.err = "nil" THEN "unset" ELSE "warning", Head(keys))>>
                          \o rest.out,
              removed |-> rest.removed + (IF r.err = "nil" THEN 1 ELSE 0)]

\* runUnset, after validateUnsetArgs: the error, the object when the function
\* returns (before the deferred Lock), the lines printed, whether Save was
\* called and the file it leaves on disk.
RunUnsetOp(doc, identity, args) ==
    LET sf0 == LoadSecretFile(doc)
        u == UnlockOp(sf0, identity)
        r == UnsetKeys(u.sf, normalizeKeys(args))
    IN  IF validateUnsetArgs(args) # "nil"
        THEN [err |-> validateUnsetArgs(args), sf |-> sf0, out |-> <<>>,
              saved |-> FALSE, doc |-> doc]
        ELSE IF u.err # "nil"
        THEN [err |-> "ErrUnlock", sf |-> sf0, out |-> <<>>, saved |-> FALSE, doc |-> doc]
        ELSE IF r.removed = 0
        THEN [err |-> "nil", sf |-> r.sf, out |-> r.out \o <<Line("no changes", <<>>)>>,
              saved |-> FALSE, doc |-> doc]
        ELSE [err |-> "nil", sf |-> r.sf, out |-> r.out \o <<Line("updated", <<>>)>>,
              saved |-> TRUE, doc |-> MarshalRawData(r.sf)]

\* envseal unset KEY [KEY...], the deferred Lock included.
RunUnset(identity, args) ==
    /\ LET r == RunUnsetOp(file, identity, args)
       IN  /\ file' = r.doc
           /\ stdout' = r.out
           /\ Sets(LockOp(r.sf).sf, "unset", r.err, {})
    /\ UNCHANGED <<nextDek, roster, rekey, obs, seal, fs, mu, rawDoc, proc, disk>>

\* The secrets file the command is run against.
InitUnset ==
    /\ file \in Documents \cup LoadedDocuments
    /\ meta = NewSecretFile.meta
    /\ secrets = NewSecretFile.secrets
    /\ legacy = NewSecretFile.legacy
    /\ dek = NewSecretFile.dek
    /\ nextDek = 2
    /\ last = [op |-> "none", err |-> "nil", lost |-> {}]
    /\ roster = <<>>
    /\ rekey = IdleRekey
    /\ obs = NoRead
    /\ LibIdle

NextUnset == \E identity \in Users, args \in UnsetArgLists : RunUnset(identity, args)

SpecUnset == InitUnset /\ [][NextUnset]_vars

(* ------------------------- sealing on its own ------------------------- *)

\* EncryptValue(p, key) returns.
SealCall ==
    /\ seal.pc = "start"
    /\ seal' = [seal EXCEPT !.pc = "sealed",
                            !.enc = EncryptValueB64(seal.p, seal.key, seal.nonce)]
    /\ UNCHANGED <<appVars, fs, mu, rawDoc, proc, disk, stdout>>

\* DecryptValue(text, key2) returns, text being what EncryptValue returned.
UnsealCall(key2) ==
    /\ seal.pc = "sealed"
    /\ seal.enc.err = "nil"
    /\ LET r == DecryptValueB64(seal.enc.text, key2)
       IN  seal' = [seal EXCEPT !.out = r,
                                !.opened = IF r.err = "nil" THEN @ \cup {key2} ELSE @,
                                !.rejected = IF r.err # "nil" THEN @ \cup {key2} ELSE @]
    /\ UNCHANGED <<appVars, fs, mu, rawDoc, proc, disk, stdout>>

\* A caller about to seal some plaintext under some key.
InitSeal ==
    /\ seal \in {[NoSeal EXCEPT !.pc = "start", !.p = p, !.key = k, !.nonce = n] :
                    p \in Plaintexts, k \in KeySlices, n \in Nonces}
    /\ fs = NoFs
    /\ mu = NoMu
    /\ rawDoc = <<>>
    /\ proc = NoProc /\ disk = NoDisk /\ stdout = <<>>
    /\ meta = NewSecretFile.meta
    /\ secrets = NewSecretFile.secrets
    /\ legacy = NewSecretFile.legacy
    /\ dek = NewSecretFile.dek
    /\ nextDek = 1
    /\ last = [op |-> "none", err |-> "nil", lost |-> {}]
    /\ file = NoFile
    /\ roster = <<>>
    /\ rekey = IdleRekey
    /\ obs = NoRead

NextSeal ==
    \/ SealCall
    \/ \E key2 \in KeySlices : UnsealCall(key2)

SpecSeal == InitSeal /\ [][NextSeal]_vars

(* ------------------------- AtomicWriteFile ---------------------------- *)

\* The contents a file has and the data a call writes.
Blocks == {"x", "y"}
Contents == UNION {[1..n -> Blocks] : n \in 0..MaxBlocks}

\* A step of the call fails: the error is kept, the file is closed, and the
\* function returns through its deferred os.Remove.
Fails(f, err) == [f EXCEPT !.err = err, !.pc = "deferred"]

\* A variant of tmp.Write that writes to the destination path.
WriteBlock_inPlace(f) ==
    LET n == Len(f.tmp.content) + 1
    IN  [f EXCEPT !.tmp.content = Append(@, f.data[n]),
                  !.dest = FileOf(SubSeq(f.data, 1, n))]

\* tmp.Write(data), one block reaching the temporary file.
WriteBlock(f) == [f EXCEPT !.tmp.content = Append(@, f.data[Len(@) + 1])]

\* os.CreateTemp(dir, ".envseal-*.tmp")
OsCreateTemp(ok) ==
    /\ fs.pc = "create"
    /\ fs' = IF ok THEN [fs EXCEPT !.tmp = FileOf(<<>>), !.pc = "chmod"]
              ELSE [fs EXCEPT !.err = "ErrCreateTemp", !.pc = "returned"]
    /\ UNCHANGED <<appVars, seal, mu, rawDoc, proc, disk, stdout>>

\* tmp.Chmod(perm)
TmpChmod(ok) ==
    /\ fs.pc = "chmod"
    /\ fs' = IF ok THEN [fs EXCEPT !.pc = "write"] ELSE Fails(fs, "ErrChmod")
    /\ UNCHANGED <<appVars, seal, mu, rawDoc, proc, disk, stdout>>

\* tmp.Write(data): the next block is written, the call returns after the
\* last one, or it fails with what was written so far.
TmpWrite(ok) ==
    /\ fs.pc = "write"
    /\ fs' = IF ~ok THEN Fails(fs, "ErrWrite")
              ELSE IF Len(fs.tmp.content) < Len(fs.data) THEN WriteBlock(fs)
              ELSE [fs EXCEPT !.pc = "sync"]
    /\ UNCHANGED <<appVars, seal, mu, rawDoc, proc, disk, stdout>>

\* tmp.Sync()
TmpSync(ok) ==
    /\ fs.pc = "sync"
    /\ fs' = IF ok THEN [fs EXCEPT !.pc = "close"] ELSE Fails(fs, "ErrSync")
    /\ UNCHANGED <<appVars, seal, mu, rawDoc, proc, disk, stdout>>

\* tmp.Close()
TmpClose(ok) ==
    /\ fs.pc = "close"
    /\ fs' = IF ok THEN [fs EXCEPT !.pc = "rename"] ELSE Fails(fs, "ErrClose")
    /\ UNCHANGED <<appVars, seal, mu, rawDoc, proc, disk, stdout>>

\* os.Rename(tmpName, path): the path names the temporary file's content, or
\* nothing changes.
OsRename(ok) ==
    /\ fs.pc = "rename"
    /\ fs' = IF ok THEN [fs EXCEPT !.dest = fs.tmp, !.tmp = NoSuchFile,
                                    !.renamed = TRUE, !.pc = "deferred"]
              ELSE Fails(fs, "ErrRename")
    /\ UNCHANGED <<appVars, seal, mu, rawDoc, proc, disk, stdout>>

\* The deferred os.Remove(tmpName), then the return.
OsRemove ==
    /\ fs.pc = "deferred"
    /\ fs' = [fs EXCEPT !.tmp = NoSuchFile, !.pc = "returned"]
    /\ UNCHANGED <<appVars, seal, mu, rawDoc, proc, disk, stdout>>

\* The process or the machine stops during the call.  The temporary file
\* stays as it is; a rename that had not reached the disk may be lost.
Crash ==
    /\ fs.pc \notin {"idle", "returned", "crashed"}
    /\ \E d \in (IF fs.renamed THEN {fs.dest, fs.prev} ELSE {fs.dest}) :
          fs' = [fs EXCEPT !.pc = "crashed", !.dest = d]
    /\ UNCHANGED <<appVars, seal, mu, rawDoc, proc, disk, stdout>>

\* AtomicWriteFile(path, data, perm) is called; path holds prev or nothing.
InitWrite ==
    /\ fs \in {[NoFs EXCEPT !.pc = "create", !.prev = f, !.dest = f, !.data = d] :
                  f \in {NoSuchFile} \cup {FileOf(c) : c \in Contents}, d \in Contents}
    /\ seal = NoSeal
    /\ mu = NoMu
    /\ rawDoc = <<>>
    /\ proc = NoProc /\ disk = NoDisk /\ stdout = <<>>
    /\ meta = NewSecretFile.meta
    /\ secrets = NewSecretFile.secrets
    /\ legacy = NewSecretFile.legacy
    /\ dek = NewSecretFile.dek
    /\ nextDek = 1
    /\ last = [op |-> "none", err |-> "nil", lost |-> {}]
    /\ file = NoFile
    /\ roster = <<>>
    /\ rekey = IdleRekey
    /\ obs = NoRead

NextWrite ==
    \/ \E ok \in BOOLEAN : OsCreateTemp(ok)
    \/ \E ok \in BOOLEAN : TmpChmod(ok)
    \/ \E ok \in BOOLEAN : TmpWrite(ok)
    \/ \E ok \in BOOLEAN : TmpSync(ok)
    \/ \E ok \in BOOLEAN : TmpClose(ok)
    \/ \E ok \in BOOLEAN : OsRename(ok)
    \/ OsRemove
    \/ Crash

SpecWrite == InitWrite /\ [][NextWrite]_vars

(* ------------------------- SecretFile.mu ------------------------------ *)

\* The methods that take sf.mu.RLock() and those that take sf.mu.Lock().
RLockMethods == {"IsUnlocked", "GetSecret", "GetAllSecrets", "Save"}
LockMethods == {"Lock", "Unlock", "Init", "RotateRecipients", "SetSecret", "UnsetSecret"}

\* The first statement of a method: RLock waits while a writer holds the
\* mutex, Lock waits while anyone holds it.
AcquireOp(m, g, op) ==
    IF op \in RLockMethods
    THEN [ok |-> m.writer = "none",
          mu |-> [m EXCEPT !.readers = @ \cup {g}, !.at[g] = [op |-> op, pc |-> "locked"]]]
    ELSE [ok |-> m.writer = "none" /\ m.readers = {},
          mu |-> [m EXCEPT !.writer = g, !.at[g] = [op |-> op, pc |-> "locked"]]]

\* Goroutine g calls a method and gets past its RLock or Lock.
Acquire(g, op) ==
    /\ mu.at[g].pc = "idle"
    /\ AcquireOp(mu, g, op).ok
    /\ mu' = AcquireOp(mu, g, op).mu
    /\ UNCHANGED <<appVars, seal, fs, rawDoc, proc, disk, stdout>>

\* Save: sf.mu.RUnlock() after yaml.Marshal, before MkdirAll and
\* AtomicWriteFile.
SaveRUnlock(g) ==
    /\ mu.at[g] = [op |-> "Save", pc |-> "locked"]
    /\ g \in mu.readers
    /\ mu' = [mu EXCEPT !.readers = @ \ {g}, !.at[g].pc = "writing"]
    /\ UNCHANGED <<appVars, seal, fs, rawDoc, proc, disk, stdout>>

\* The method returns (its deferred RUnlock or Unlock; Save after the write).
Return(g) ==
    /\ \/ mu.at[g].pc = "locked" /\ ~(mu.at[g].op = "Save" /\ g \in mu.readers)
       \/ mu.at[g].pc = "writing"
    /\ mu' = [mu EXCEPT !.readers = @ \ {g},
                        !.writer = IF @ = g THEN "none" ELSE @,
                        !.at[g] = [op |-> "none", pc |-> "idle"]]
    /\ UNCHANGED <<appVars, seal, fs, rawDoc, proc, disk, stdout>>

\* Goroutine g is inside method op.
Running(g, ops) == mu.at[g].pc # "idle" /\ mu.at[g].op \in ops

InitMu ==
    /\ mu = NoMu
    /\ seal = NoSeal
    /\ fs = NoFs
    /\ rawDoc = <<>>
    /\ proc = NoProc /\ disk = NoDisk /\ stdout = <<>>
    /\ meta = NewSecretFile.meta
    /\ secrets = NewSecretFile.secrets
    /\ legacy = NewSecretFile.legacy
    /\ dek = NewSecretFile.dek
    /\ nextDek = 1
    /\ last = [op |-> "none", err |-> "nil", lost |-> {}]
    /\ file = NoFile
    /\ roster = <<>>
    /\ rekey = IdleRekey
    /\ obs = NoRead

NextMu ==
    \/ \E g \in Goroutines, op \in RLockMethods \cup LockMethods : Acquire(g, op)
    \/ \E g \in Goroutines : SaveRUnlock(g)
    \/ \E g \in Goroutines : Return(g)

SpecMu == InitMu /\ [][NextMu]_vars

(* ------------------------- properties of the vault --------------------- *)

\* C5 (Unlock determinism).  In every reachable state, for every list R that
\* Init accepts: on the object Init(R) leaves (as it is, locked, or saved and
\* reloaded), Unlock with the identity of any member of R succeeds and leaves
\* the object holding the DEK Init minted; Unlock with an identity outside R
\* fails with ErrAccessDenied and changes nothing.
C5_UnlockDeterminism ==
    nextDek <= MaxDek =>
        \A keys \in RecipientLists :
            LET r == InitOp(SF, keys, nextDek)
            IN  r.err = "nil" =>
                    \A u \in Users : \A v \in Openings(r.sf) :
                        IF PubKeyOf(u) \in TrimmedSet(keys)
                        THEN UnlockOp(v, u) = Ret([v EXCEPT !.dek = nextDek], "nil")
                        ELSE UnlockOp(v, u) = Ret(v, "ErrAccessDenied")

\* C5 witness: Init has succeeded for a recipient set that admits one identity
\* and excludes the other.
C5_Witness ==
    /\ last.op = "Init" /\ last.err = "nil"
    /\ \E u, w \in Users :
          /\ UnlockOp(LockOp(SF).sf, u) = Ret(SF, "nil")
          /\ UnlockOp(LockOp(SF).sf, w).err = "ErrAccessDenied"

\* C6 (standard rekey frame).  In every reachable state, a successful
\* RotateRecipients(T) leaves the DEK and every stored value (canonical and
\* legacy) unchanged; the new recipient list has exactly one entry per distinct
\* trimmed non-empty key of T, each wrapping the unchanged DEK for that key;
\* every member of T can then Unlock the vault and obtains that DEK.
C6_RekeyFrame ==
    \A keys \in RecipientLists :
        LET r == RotateRecipientsOp(SF, keys)
            rs == r.sf.meta.recipients
        IN  r.err = "nil" =>
                /\ r.sf.dek = dek /\ r.sf.secrets = secrets /\ r.sf.legacy = legacy
                /\ r.sf.meta.present
                /\ Len(rs) = Cardinality(TrimmedSet(keys))
                /\ {rs[i].arg : i \in DOMAIN rs} = TrimmedSet(keys)
                /\ \A i \in DOMAIN rs : rs[i].enc = [to |-> rs[i].arg, key |-> dek]
                /\ \A u \in Users : PubKeyOf(u) \in TrimmedSet(keys) =>
                      \A v \in Openings(r.sf) :
                          UnlockOp(v, u) = Ret([v EXCEPT !.dek = dek], "nil")

\* C6 witness: RotateRecipients has succeeded on a vault that holds a sealed
\* value and now lists two recipients.
C6_Witness ==
    /\ last.op = "RotateRecipients" /\ last.err = "nil"
    /\ Len(meta.recipients) = 2
    /\ SealedValues(SF) # {}

\* C7 (standard rekey does not revoke a captured key).  In every reachable
\* state, when a successful RotateRecipients(T) drops X, a recipient until
\* then, from the list: Unlock with X's identity fails with ErrAccessDenied
\* afterwards, the stored values are the same, and the DEK X's Unlock returned
\* before the call unseals every stored value it unsealed before, to the same
\* plaintext.
C7_RekeyKeepsCapturedKey ==
    \A keys \in RecipientLists :
        LET r == RotateRecipientsOp(SF, keys)
        IN  r.err = "nil" =>
                \A x \in Users :
                    (UnlockOp(SF, x).err = "nil" /\ PubKeyOf(x) \notin TrimmedSet(keys)) =>
                        LET k == UnlockOp(SF, x).sf.dek
                        IN  /\ \A v \in Openings(r.sf) :
                                  UnlockOp(v, x) = Ret(v, "ErrAccessDenied")
                            /\ DOMAIN r.sf.secrets = DOMAIN secrets
                            /\ DOMAIN r.sf.legacy = DOMAIN legacy
                            /\ \A n \in DOMAIN secrets :
                                  decryptAnyLocked(r.sf.secrets[n], k)
                                      = decryptAnyLocked(secrets[n], k)
                            /\ \A n \in DOMAIN legacy :
                                  decryptAnyLocked(r.sf.legacy[n], k)
                                      = decryptAnyLocked(legacy[n], k)

\* C7 witness: RotateRecipients has just removed a recipient, and the DEK that
\* recipient's Unlock returned before the call unseals a stored value.
C7_Witness ==
    /\ last.op = "RotateRecipients" /\ last.err = "nil"
    /\ \E l \in last.lost : \E s \in SealedValues(SF) :
          DecryptValue(s, l.key).err = "nil"

\* C9 (a failed Init changes nothing), as claimed: an Init that returns an
\* error leaves the DEK, the metadata and the values as they were.
C9_FailedInitChangesNothing ==
    [][(last'.op = "Init" /\ last'.err # "nil") =>
          UNCHANGED <<meta, secrets, legacy, dek>>]_vars

\* C10 (metadata is non-empty whenever a sealed value exists), as claimed: a
\* vault that holds a sealed value has a metadata block with at least one
\* recipient entry.
C10_MetadataWhenSealed ==
    SealedValues(SF) # {} => (meta.present /\ Len(meta.recipients) >= 1)

(* ------------------------- properties of rekey ------------------------- *)

\* The names object v stores a value under.
SecretNames(v) == (DOMAIN v.secrets) \cup (DOMAIN v.legacy)

\* The identities whose public key is not in the target list.
Excluded(target) == {x \in Users : PubKeyOf(x) \notin TrimmedSet(target)}

\* GetAllSecrets on object v takes one of its two "decryption failed" branches.
Step1Fails(v) ==
    \/ \E n \in DOMAIN v.secrets : decryptAnyLocked(v.secrets[n], v.dek).err # "nil"
    \/ \E n \in (DOMAIN v.legacy) \ (DOMAIN v.secrets) :
          v.legacy[n].kind = "str" /\ decryptIfNeeded(v.legacy[n], v.dek).err # "nil"

\* C1 (rotation revokes), as claimed: when the rotation path of rekey has
\* completed (Save included) with a target that excludes X, Unlock of the saved
\* vault with X's identity fails with ErrAccessDenied and no value stored in it,
\* canonical or legacy, is unsealed by the pre-rotation DEK.
C1_RotationRevokes ==
    rekey.pc = "done" =>
        \A x \in Excluded(rekey.target) :
            /\ UnlockOp(LoadSecretFile(file), x).err = "ErrAccessDenied"
            /\ \A s \in SealedValues(LoadSecretFile(file)) :
                  DecryptValue(s, rekey.pre.dek).err # "nil"

\* C2 (rotation aborts on a per-entry failure), as claimed: a rotation whose
\* first step fails to decrypt a stored value does not go on to mint a new DEK,
\* and a rotation that returns an error leaves the object's metadata, values
\* and DEK as they were when it started.
C2_RotationAborts ==
    /\ Step1Fails(rekey.pre) => rekey.pc \notin {"loop", "done"}
    /\ rekey.pc = "failed" => SF = rekey.pre

\* C3 (a partial rotation is never observable), as claimed: no GetAllSecrets
\* that runs on the object during a rotation finds the metadata wrapping the
\* new DEK while a stored value is still sealed under the old one.
C3_NoPartialRotationObserved == ~obs.partial

\* C4 (rotation preserves every secret), as claimed: when the rotation has
\* completed, the saved vault unlocked by any target recipient returns, for
\* every name whose GetSecret returned a plaintext before, the same plaintext,
\* and stores the same set of names.
C4_RotationPreservesSecrets ==
    rekey.pc = "done" =>
        \A u \in Users \ Excluded(rekey.target) :
            LET v == UnlockOp(LoadSecretFile(file), u).sf
            IN  /\ \A n \in SecretNames(rekey.pre) \cup KeyInputs :
                      GetSecretOp(rekey.pre, n).err = "nil" =>
                          GetSecretOp(v, n) = GetSecretOp(rekey.pre, n)
                /\ SecretNames(v) = SecretNames(rekey.pre)

\* The public keys on the roster.
RosterKeys == {roster[i].pk : i \in DOMAIN roster}

\* C8 (roster changes alone never change vault access).  Every run of users
\* add or users remove (AddUser, RemoveUserStrict and through it RemoveUser),
\* successful or not, leaves the secrets file and the SecretFile object as they
\* were: every identity's Unlock of the file has the same outcome as before.
C8_RosterChangesKeepAccess ==
    [][(last'.op \in {"users add", "users remove"}) =>
          /\ UNCHANGED <<file, meta, secrets, legacy, dek>>
          /\ \A u \in Users :
                UnlockOp(LoadSecretFile(file'), u) = UnlockOp(LoadSecretFile(file), u)]_vars

\* C8 witness: a roster command has just succeeded; a user who is no longer on
\* the roster can still Unlock the file, and a user who is on the roster cannot.
C8_Witness ==
    /\ last.op \in {"users add", "users remove"} /\ last.err = "nil"
    /\ \E u \in Users :
          PubKeyOf(u) \notin RosterKeys /\ UnlockOp(LoadSecretFile(file), u).err = "nil"
    /\ \E w \in Users :
          /\ PubKeyOf(w) \in RosterKeys
          /\ UnlockOp(LoadSecretFile(file), w).err = "ErrAccessDenied"

(* ------------------------- properties of the API ----------------------- *)

\* C11 (Initialize stores an empty value map), as claimed: after a successful
\* Init the vault holds no secret values, GetAllSecrets returns the empty
\* mapping, whatever the vault held before the call.
C11_InitStoresEmptyMap ==
    (last.op = "Init" /\ last.err = "nil") =>
        GetAllSecretsOp(SF) = [err |-> "nil", out |-> EmptyMap]

\* C12 (a failed RotateRecipients changes nothing).  In every reachable state
\* and for every list, a RotateRecipients that returns an error (the vault is
\* locked, the list is empty after trimming and deduplication, or wrapping
\* fails for some key of the list, first or not) leaves the recipient list,
\* every stored value and the DEK as they were.
C12_FailedRotateChangesNothing ==
    \A keys \in RecipientLists :
        LET r == RotateRecipientsOp(SF, keys)
        IN  r.err # "nil" =>
                /\ r.sf = SF
                /\ r.err = IF dek = 0 THEN "ErrRotateLocked"
                           ELSE IF TrimmedSet(keys) = {} THEN "ErrEmptyRecipients"
                           ELSE "ErrEncryptRecipient"

\* C12 witness: RotateRecipients has just failed on wrapping, on an unlocked
\* vault with recipients and a sealed value; a list whose second key is the
\* malformed one fails the same way.
C12_Witness ==
    /\ last.op = "RotateRecipients" /\ last.err = "ErrEncryptRecipient"
    /\ dek # 0 /\ Len(meta.recipients) >= 1 /\ SealedValues(SF) # {}
    /\ RotateRecipientsOp(SF, <<PubKeyOf("A"), <<"bad">>>>).err = "ErrEncryptRecipient"

\* C13 (locked vaults reject every value and recipient operation).  In every
\* reachable state in which the object holds no DEK (as loaded, or after
\* Lock), SetSecret, UnsetSecret, GetSecret, GetAllSecrets and
\* RotateRecipients, with any argument, each return their locked-state error
\* and leave the metadata and every stored value as they were.
C13_LockedRejects ==
    dek = 0 =>
        /\ \A n \in KeyInputs :
              /\ \A val \in PlainInputs : SetSecretOp(SF, n, val) = Ret(SF, "ErrLocked")
              /\ UnsetSecretOp(SF, n) = Ret(SF, "ErrLocked")
              /\ GetSecretOp(SF, n) = [err |-> "ErrLocked"]
        /\ GetAllSecretsOp(SF) = [err |-> "ErrLocked"]
        /\ \A keys \in RecipientLists :
              RotateRecipientsOp(SF, keys) = Ret(SF, "ErrRotateLocked")

\* C13 witness: a locked vault with recipients and a stored value has just
\* rejected an UnsetSecret; unlocked, it would remove a stored name.
C13_Witness ==
    /\ dek = 0 /\ last.op = "UnsetSecret" /\ last.err = "ErrLocked"
    /\ Len(meta.recipients) >= 1
    /\ \E n \in DOMAIN secrets : UnsetSecretOp([SF EXCEPT !.dek = 1], n).err = "nil"

\* C14 (Unlock does not reveal why it failed), as claimed: an Unlock with an
\* identity, on a document that has a metadata block, that fails (the key
\* matches no recipient, the recipient list is empty, a wrapped key is corrupt
\* or of the wrong length, or the metadata block is malformed) returns
\* ErrAccessDenied.
C14_UnlockHidesCause ==
    (last.op = "Unlock" /\ meta.present
        /\ last.err \notin {"nil", "ErrNilIdentity"}) => last.err = "ErrAccessDenied"

\* C15 (Unlock without a metadata block).  In every reachable state of a
\* loaded vault whose document has no metadata block, and on the object
\* NewSecretFile returns, Unlock with any identity fails with
\* ErrMissingMetadata, not with ErrAccessDenied, and the vault is locked
\* before and after the call.
C15_MissingMetadata ==
    /\ \A u \in Users : UnlockOp(NewSecretFile, u) = Ret(NewSecretFile, "ErrMissingMetadata")
    /\ ~meta.present =>
          /\ dek = 0
          /\ \A u \in Users : UnlockOp(SF, u) = Ret(SF, "ErrMissingMetadata")

\* C15 witness: Unlock has just failed with ErrMissingMetadata on a locked
\* vault loaded from a file that holds a sealed value and no metadata block.
C15_Witness ==
    /\ last.op = "Unlock" /\ last.err = "ErrMissingMetadata"
    /\ ~meta.present /\ dek = 0 /\ SealedValues(SF) # {}

\* C16 (Lock is idempotent).  In every reachable state, Lock returns no error,
\* leaves the buffer that held the DEK all zero and the object without a DEK,
\* and changes neither the metadata nor any stored value; a second Lock right
\* after it returns no error and changes nothing; IsUnlocked is false after
\* the first and after the second call.
C16_LockIdempotent ==
    LET a == LockOp(SF)
        b == LockOp(a.sf)
    IN  /\ a.err = "nil" /\ b.err = "nil"
        /\ a.sf = [SF EXCEPT !.dek = 0]
        /\ a.buf.key = 0 /\ (IsUnlocked(SF) => a.buf.len = dekSize)
        /\ b.sf = a.sf
        /\ ~IsUnlocked(a.sf) /\ ~IsUnlocked(b.sf)

\* C16 witness: Lock has just returned on a vault that holds recipients and a
\* sealed value, and the vault is locked.
C16_Witness ==
    /\ last.op = "Lock" /\ last.err = "nil"
    /\ ~IsUnlocked(SF)
    /\ Len(meta.recipients) >= 1 /\ SealedValues(SF) # {}

\* C17 (SetSecret then GetSecret round-trips), as claimed: in every reachable
\* state, after a SetSecret(n, v) that succeeds, GetSecret(n) returns exactly
\* v and no legacy top-level entry for n remains; GetSecret(n) still returns v
\* after a later Lock and successful Unlock, and after a later successful
\* RotateRecipients (and a Lock and successful Unlock after it).
C17_SetThenGet ==
    \A n \in KeyInputs, val \in PlainInputs :
        LET r == SetSecretOp(SF, n, val)
            got == [err |-> "nil", val |-> val]
        IN  r.err = "nil" =>
                /\ GetSecretOp(r.sf, n) = got
                /\ TrimSpace(n) \notin DOMAIN r.sf.legacy
                /\ \A u \in Users :
                      LET w == UnlockOp(LockOp(r.sf).sf, u)
                      IN  w.err = "nil" => GetSecretOp(w.sf, n) = got
                /\ \A keys \in RecipientLists :
                      LET t == RotateRecipientsOp(r.sf, keys)
                      IN  t.err = "nil" =>
                              /\ GetSecretOp(t.sf, n) = got
                              /\ \A u \in Users :
                                    LET w == UnlockOp(LockOp(t.sf).sf, u)
                                    IN  w.err = "nil" => GetSecretOp(w.sf, n) = got

\* The names that are reserved or empty once trimmed.
ReservedInputs ==
    {MetadataKey, SecretsKey, <<SP, "_envseal">>, <<"secrets", SP>>, <<SP>>, <<>>}

\* C18 (reserved names are protected).  In every reachable state, SetSecret
\* and UnsetSecret called with '_envseal', 'secrets' or a name that is empty
\* after trimming return an error and leave the vault as it was; and SetSecret
\* and UnsetSecret with any name leave the metadata block as it was and put no
\* reserved name into, and take none out of, the stored names.
C18_ReservedNamesProtected ==
    /\ \A n \in ReservedInputs :
          /\ \A val \in PlainInputs :
                SetSecretOp(SF, n, val).err # "nil" /\ SetSecretOp(SF, n, val).sf = SF
          /\ UnsetSecretOp(SF, n).err # "nil" /\ UnsetSecretOp(SF, n).sf = SF
    /\ \A n \in KeyInputs \cup ReservedInputs :
          \A r \in {SetSecretOp(SF, n, val) : val \in PlainInputs} \cup {UnsetSecretOp(SF, n)} :
              /\ r.sf.meta = meta
              /\ (DOMAIN r.sf.secrets) \cap {MetadataKey, SecretsKey}
                     = (DOMAIN secrets) \cap {MetadataKey, SecretsKey}
              /\ (DOMAIN r.sf.legacy) \cap {MetadataKey, SecretsKey}
                     = (DOMAIN legacy) \cap {MetadataKey, SecretsKey}

\* C18 witness: an unlocked vault with recipients and a sealed value has just
\* rejected a SetSecret for a reserved name.
C18_Witness ==
    /\ last.op = "SetSecret" /\ last.err = "ErrReserved"
    /\ dek # 0 /\ Len(meta.recipients) >= 1 /\ SealedValues(SF) # {}

C20_GetSecretLookup ==
    dek # 0 =>
        \A n \in KeyInputs :
            LET key == TrimSpace(n)
                stored == IF key \in DOMAIN secrets THEN secrets[key] ELSE legacy[key]
                g == GetSecretOp(SF, n)
            IN  (key # <<>> /\ ~IsReserved(key)
                    /\ key \in (DOMAIN secrets) \cup (DOMAIN legacy)
                    /\ stored.kind = "str") =>
                    /\ ~HasMarker(stored) => g = [err |-> "nil", val |-> stored]
                    /\ (HasMarker(stored) /\ Head(stored.ks) = dek) =>
                           g = [err |-> "nil", val |-> [stored EXCEPT !.ks = Tail(@)]]

\* C20 witness: GetSecret has just succeeded on an unlocked vault that stores K
\* sealed in the secrets map and, with another text, unsealed at the legacy
\* top level; GetSecret(K) is the unsealed canonical value.
C20_Witness ==
    /\ last.op = "GetSecret" /\ last.err = "nil" /\ dek # 0
    /\ <<"K">> \in (DOMAIN secrets) \cap (DOMAIN legacy)
    /\ HasMarker(secrets[<<"K">>]) /\ ~HasMarker(legacy[<<"K">>])
    /\ GetSecretOp(SF, <<"K">>) = [err |-> "nil", val |-> Str(secrets[<<"K">>].p)]
    /\ GetSecretOp(SF, <<"K">>).val # legacy[<<"K">>]

\* C21 (corruption is not absence).  In every reachable state of an unlocked
\* vault and for every name n that is neither empty nor reserved and is
\* stored: when the entry GetSecret reads is not a string, or carries the seal
\* marker and does not authenticate under the active DEK (tampered, or sealed
\* under another DEK), GetSecret(n) returns an error other than ErrKeyNotFound
\* and no value.
C21_CorruptionReported ==
    dek # 0 =>
        \A n \in KeyInputs :
            LET key == TrimSpace(n)
                stored == IF key \in DOMAIN secrets THEN secrets[key] ELSE legacy[key]
                g == GetSecretOp(SF, n)
            IN  (key # <<>> /\ ~IsReserved(key)
                    /\ key \in (DOMAIN secrets) \cup (DOMAIN legacy)
                    /\ (stored.kind # "str" \/ (HasMarker(stored) /\ Head(stored.ks) # dek))) =>
                    /\ g.err \notin {"nil", "ErrKeyNotFound"}
                    /\ "val" \notin DOMAIN g

\* C21 witness: GetSecret has just failed on an unlocked vault that holds a
\* value sealed under another DEK and a tampered one; both are reported as
\* undecryptable.
C21_Witness ==
    /\ last.op = "GetSecret" /\ last.err = "ErrDecryptValue" /\ dek # 0
    /\ <<"K">> \in DOMAIN secrets /\ <<"J">> \in DOMAIN secrets
    /\ HasMarker(secrets[<<"K">>]) /\ Head(secrets[<<"K">>].ks) \notin {0, dek}
    /\ secrets[<<"J">>] = Tampered("w")
    /\ GetSecretOp(SF, <<"K">>) = [err |-> "ErrDecryptValue"]
    /\ GetSecretOp(SF, <<"J">>) = [err |-> "ErrDecryptValue"]

\* C22 (GetAllSecrets is best-effort).  In every reachable state of an
\* unlocked vault GetAllSecrets returns no error, and for every name whose
\* entry (the one in the secrets map, else the legacy top-level string under a
\* name that is not reserved) is a string: when the entry carries the seal
\* marker and does not authenticate under the active DEK the result holds the
\* stored string itself under that name; otherwise it holds the entry's
\* plaintext (the unsealed text, or the unmarked string as it is), whatever
\* happens to the other entries.  An entry of the secrets map that is not a
\* string is returned as its printed form.
C22_GetAllBestEffort ==
    dek # 0 =>
        LET r == GetAllSecretsOp(SF)
            names == (DOMAIN secrets) \cup {k \in DOMAIN legacy : ~IsReserved(k)}
            Stored(k) == IF k \in DOMAIN secrets THEN secrets[k] ELSE legacy[k]
        IN  /\ r.err = "nil"
            /\ \A k \in names :
                  LET s == Stored(k)
                  IN  /\ (s.kind = "str" /\ HasMarker(s) /\ Head(s.ks) # dek) =>
                          k \in DOMAIN r.out /\ r.out[k] = s
                      /\ (s.kind = "str" /\ HasMarker(s) /\ Head(s.ks) = dek) =>
                          k \in DOMAIN r.out /\ r.out[k] = [s EXCEPT !.ks = Tail(@)]
                      /\ (s.kind = "str" /\ ~HasMarker(s)) =>
                          k \in DOMAIN r.out /\ r.out[k] = s
                      /\ (s.kind # "str" /\ k \in DOMAIN secrets) =>
                          r.out[k] = Str(s.p)

\* C22 witness: GetAllSecrets has just returned on an unlocked vault that
\* holds one value it cannot unseal next to one it can; the result holds the
\* stored string of the first and the plaintext of the second.
C22_Witness ==
    /\ last.op = "GetAllSecrets" /\ last.err = "nil" /\ dek # 0
    /\ \E k, j \in DOMAIN secrets :
          /\ HasMarker(secrets[k]) /\ Head(secrets[k].ks) # dek
          /\ HasMarker(secrets[j]) /\ Head(secrets[j].ks) = dek
          /\ GetAllSecretsOp(SF).out[k] = secrets[k]
          /\ GetAllSecretsOp(SF).out[j] = Str(secrets[j].p)

(* ------------------------- properties of sealing ----------------------- *)

\* C23 (seal/unseal round trip, wrong-key rejection).  For every plaintext p
\* and 32-byte key k, once EncryptValue(p, k) has returned a text: every
\* DecryptValue of that text with a 32-byte key k' has returned p without
\* error when k' = k, and an error when k' differs from k.
C23_SealRoundTrip ==
    (seal.pc = "sealed" /\ validateDEKLen(seal.key)) =>
        /\ seal.enc.err = "nil"
        /\ seal.opened \subseteq {seal.key}
        /\ seal.key \notin seal.rejected
        /\ \A k2 \in KeySlices :
              validateDEKLen(k2) =>
                  LET r == DecryptValueB64(seal.enc.text, k2)
                  IN  IF k2 = seal.key THEN r = [err |-> "nil", val |-> seal.p]
                      ELSE r.err # "nil" /\ r.val = <<>>

\* C23 witness: a non-empty plaintext was sealed; the sealing key has opened
\* the text and both other 32-byte keys were rejected.
C23_Witness ==
    /\ seal.pc = "sealed" /\ seal.p # <<>>
    /\ seal.opened = {seal.key}
    /\ Cardinality({k \in seal.rejected : validateDEKLen(k)}) = 2
    /\ DecryptValueB64(seal.enc.text, seal.key).val = seal.p

(* ------------------------- properties of AtomicWriteFile --------------- *)

\* C24 (atomic replace).  At every point of an AtomicWriteFile call, a crash
\* included: the destination path holds the complete previous content (or is
\* absent as before) as long as the rename has not succeeded, in particular
\* after any step has failed; once the rename has succeeded it holds the
\* complete data; it never holds anything else.
C24_AtomicReplace ==
    fs.pc # "idle" =>
        /\ ~fs.renamed => fs.dest = fs.prev
        /\ (fs.renamed /\ fs.pc # "crashed") => fs.dest = FileOf(fs.data)
        /\ fs.dest \in {fs.prev, FileOf(fs.data)}
        /\ fs.err # "nil" => fs.dest = fs.prev

\* C24 witness: the call failed in tmp.Write after writing a part of the data
\* to the temporary file; the destination still holds its previous content,
\* which differs from the data and from the part written.
C24_Witness ==
    /\ fs.pc = "deferred" /\ fs.err = "ErrWrite"
    /\ fs.prev.exists /\ fs.prev.content # <<>>
    /\ Len(fs.tmp.content) = 1 /\ Len(fs.data) = 2
    /\ fs.prev # FileOf(fs.data) /\ fs.prev # fs.tmp
    /\ fs.dest = fs.prev

(* ------------------------- properties of the commands ------------------ *)

\* C25 (all-or-nothing persistence).  In every step of the set command and of
\* the rekey command (both modes): the secrets file on disk changes only in
\* the step that ends with the command's Save, and that step reports no error;
\* a step that reports an error (a failed Unlock, SetSecret, Init or
\* RotateRecipients) leaves the file as it was, and so does everything the
\* rotation does after a failed step.
C25_AllOrNothing ==
    [][ /\ file' # file =>
            /\ last'.op \in {"set", "rekey", "rekey --rotate"}
            /\ last'.err = "nil"
            /\ rekey.pc \in {"idle", "loop"}
        /\ last'.err # "nil" => file' = file
        /\ rekey.pc = "failed" => file' = file ]_vars

\* C25 witness: the set command has failed on its second pair (a reserved
\* name) after setting the first in memory; the object it leaves differs from
\* the file on disk, which still holds the value it held.
C25_Witness ==
    /\ last.op = "set" /\ last.err = "ErrReserved"
    /\ file.exists /\ <<"K">> \in DOMAIN file.secrets /\ <<"K">> \in DOMAIN secrets
    /\ secrets[<<"K">>].p = "w" /\ file.secrets[<<"K">>].p = "v"

(* ------------------------- properties of SecretFile.mu ----------------- *)

\* The reads and the mutations of a vault.
Reads == {"IsUnlocked", "GetSecret", "GetAllSecrets"}
Mutations == {"Unlock", "Lock", "Init", "SetSecret", "UnsetSecret", "RotateRecipients", "Save"}

\* C26 (reader/writer exclusion).  In every reachable state, no goroutine is
\* inside a read (GetSecret, GetAllSecrets, IsUnlocked) while another is inside
\* a mutation (Unlock, Lock, SetSecret, UnsetSecret, RotateRecipients, the
\* calls of a rotation, Save) of the same vault, and no two goroutines are
\* inside mutations at once.
C26_ReadWriteExclusion ==
    \A g, h \in Goroutines :
        g # h =>
            /\ ~(Running(g, Reads) /\ Running(h, Mutations))
            /\ ~(Running(g, Mutations) /\ Running(h, Mutations))

(* ------------------------- properties of the roster -------------------- *)

\* C27 (AddUser validation leaves the roster unchanged).  In every reachable
\* roster and for every name and public key: AddUser fails with ErrInvalidName
\* when the name is empty after trimming; with ErrInvalidPubKey when the name
\* is not and the public key is empty after trimming; with ErrUserExists when
\* neither is empty and the trimmed public key is in the roster; and in each
\* of these cases the roster keeps its entries and their order.
C27_AddUserValidation ==
    \A n \in NameInputs, pk \in RosterKeyInputs :
        LET r == AddUserOp(roster, n, pk)
            name == TrimSpace(n)
            pubKey == TrimSpace(pk)
        IN  /\ name = <<>> => r = [err |-> "ErrInvalidName", acs |-> {roster}]
            /\ (name # <<>> /\ pubKey = <<>>) =>
                   r = [err |-> "ErrInvalidPubKey", acs |-> {roster}]
            /\ (name # <<>> /\ pubKey # <<>>
                   /\ \E i \in DOMAIN roster : roster[i].pk = pubKey) =>
                   r = [err |-> "ErrUserExists", acs |-> {roster}]

\* C27 witness: AddUser has just been refused for a public key that the
\* roster lists under another name.
C27_Witness ==
    /\ last.op = "AddUser" /\ last.err = "ErrUserExists"
    /\ \E i \in DOMAIN roster :
          /\ roster[i].name # <<"alice">>
          /\ AddUserOp(roster, <<"alice">>, roster[i].pk)
                 = [err |-> "ErrUserExists", acs |-> {roster}]

\* C28 (AddUser keeps a deterministic order).  In every state reached by a
\* successful AddUser the roster is sorted by name with ties broken by public
\* key: it equals what LoadManifest makes of it, so saving and loading it does
\* not change the order of its entries.
C28_AddUserSorted ==
    (last.op = "AddUser" /\ last.err = "nil") => roster = LoadManifest(roster)

\* C29 (public keys are unique).  In every roster reached from an empty
\* roster, from one LoadManifest read or from the one init created, by
\* AddUser, RemoveUser and RemoveUserStrict calls, no two entries have the same
\* public key.
C29_UniquePublicKeys ==
    \A i, j \in DOMAIN roster : roster[i].pk = roster[j].pk => i = j

\* C29 witness: AddUser has succeeded on a roster that already listed two
\* keys; the three entries have three keys.
C29_Witness ==
    /\ last.op = "AddUser" /\ last.err = "nil"
    /\ Len(roster) = 3
    /\ Cardinality({roster[i].pk : i \in DOMAIN roster}) = 3

\* C30 (roster names are valid).  In every roster reached from one
\* LoadManifest read or init created, by AddUser and RemoveUser calls, every
\* entry's name is non-empty and matches the alias pattern.
C30_ValidNames ==
    \A i \in DOMAIN roster : roster[i].name # <<>> /\ aliasRe(roster[i].name)

\* C31 (RemoveUser).  In every reachable roster and for every identifier id:
\* RemoveUser(id) leaves exactly the entries whose name and whose public key
\* both differ from the trimmed id, in their previous order, and returns true
\* exactly when an entry matched; RemoveUserStrict(id) leaves the same roster
\* and returns ErrUserNotFound exactly when no entry matched, the roster then
\* being unchanged.
C31_RemoveUser ==
    \A rawId \in NameInputs \cup RosterKeyInputs :
        LET id == TrimSpace(rawId)
            Matches(u) == u.name = id \/ u.pk = id
            Stays(u) == ~Matches(u)
            matched == \E i \in DOMAIN roster : Matches(roster[i])
            r == RemoveUserOp(roster, rawId)
            st == RemoveUserStrictOp(roster, rawId)
        IN  /\ r.ac = SelectSeq(roster, Stays)
            /\ r.found = matched
            /\ st.ac = r.ac
            /\ (st.err = "ErrUserNotFound") = ~matched
            /\ st.err \in {"nil", "ErrUserNotFound"}
            /\ ~matched => st.ac = roster

\* C32 (load-time normalization).  Once LoadManifest has normalized the list
\* it read: no entry has an empty public key; no two entries have the same
\* public key; every public key of the document that is not empty after
\* trimming has exactly the entry (trimmed) that comes first with that key in
\* the document; no error was returned; and normalizing the roster again
\* changes nothing.
C32_Normalization ==
    last.op # "yaml.Unmarshal" =>
        LET t == [i \in DOMAIN rawDoc |-> User(TrimSpace(rawDoc[i].name), TrimSpace(rawDoc[i].pk))]
            First(k) == CHOOSE i \in DOMAIN t :
                            t[i].pk = k /\ \A j \in 1..(i - 1) : t[j].pk # k
        IN  /\ last.err = "nil"
            /\ \A i \in DOMAIN roster : roster[i].pk # <<>>
            /\ \A i, j \in DOMAIN roster : roster[i].pk = roster[j].pk => i = j
            /\ {roster[i] : i \in DOMAIN roster}
                   = {t[First(k)] : k \in {t[i].pk : i \in DOMAIN t} \ {<<>>}}
            /\ normalizeInPlace(roster) = roster

\* C32 witness: the document listed one public key twice, under two names and
\* once with a leading space; the roster holds the first of the two entries
\* alone, and has been normalized a second time.
C32_Witness ==
    /\ last.op = "normalizeInPlace"
    /\ Len(rawDoc) = 2 /\ rawDoc[1].pk # rawDoc[2].pk
    /\ TrimSpace(rawDoc[1].pk) = TrimSpace(rawDoc[2].pk)
    /\ rawDoc[1].name # rawDoc[2].name
    /\ roster = <<User(TrimSpace(rawDoc[1].name), TrimSpace(rawDoc[1].pk))>>

\* C33 (DEK consistency).  In every state reached by Init, Unlock, Lock,
\* SetSecret, UnsetSecret and RotateRecipients calls, successful or not, in
\* which the vault is unlocked: every recipient entry of the metadata wraps the
\* DEK in memory, and every stored value that carries the seal marker is
\* sealed under that DEK.
C33_DekConsistency ==
    dek # 0 =>
        /\ \A i \in DOMAIN meta.recipients : meta.recipients[i].enc.key = dek
        /\ \A s \in SealedValues(SF) : DecryptValue(s, dek).err = "nil"

(* ------------------------- properties of the exit paths ---------------- *)

\* C34 (Lock before termination).  Whenever a command that unlocked the vault
\* (set, unset, rekey, print, exec, doctor's access check) has terminated, by
\* returning nil, by returning an error or because the child of exec exited
\* with a non-zero status, it has called Lock and the DEK is gone from the
\* object.
C34_LockBeforeExit ==
    (proc.pc = "exited" /\ proc.unlocked) => (proc.lockCalls >= 1 /\ dek = 0)

(* ------------------------- properties of Unlock ------------------------ *)

\* C35 (a failed Unlock changes nothing).  In every reachable state and for
\* every identity, the nil identity included: when Unlock returns an error,
\* the error is one of the four (nil identity, missing metadata, metadata that
\* does not parse, access denied) and the DEK, the metadata and the stored
\* values are what they were, so a locked vault stays locked and an unlocked
\* vault keeps its DEK.
C35_FailedUnlock ==
    \A id \in Users \cup {NilIdentity} :
        LET r == UnlockOp(SF, id)
        IN  r.err # "nil" =>
                /\ r.err \in {"ErrNilIdentity", "ErrMissingMetadata",
                              "ErrParseMetadata", "ErrAccessDenied"}
                /\ r.sf.dek = dek
                /\ r.sf.meta = meta
                /\ r.sf.secrets = secrets
                /\ r.sf.legacy = legacy
                /\ (r.sf.dek # 0) = (dek # 0)

\* An unlocked vault on which Unlock has just been denied, still unlocked.
C35_Witness ==
    /\ last.op = "Unlock"
    /\ last.err = "ErrAccessDenied"
    /\ dek # 0

(* ------------------------- properties of GetAllSecrets ----------------- *)

\* C36 (GetAllSecrets agrees with GetSecret).  On an unlocked vault
\* GetAllSecrets succeeds and: every name for which GetSecret succeeds is in
\* the result, under its trimmed form, with the plaintext GetSecret returns;
\* an entry of the secrets map decides the result for its name whatever the
\* top level holds under that name; and neither "_envseal" nor "secrets" is a
\* name of the result.
C36_GetAllAgreesWithGet ==
    dek # 0 =>
        LET all == GetAllSecretsOp(SF)
            canonicalOnly == GetAllSecretsOp([SF EXCEPT !.legacy = EmptyMap])
        IN  /\ all.err = "nil"
            /\ \A n \in KeyInputs :
                   LET g == GetSecretOp(SF, n)
                   IN  g.err = "nil" =>
                           /\ TrimSpace(n) \in DOMAIN all.out
                           /\ all.out[TrimSpace(n)] = g.val
            /\ \A k \in DOMAIN secrets : all.out[k] = canonicalOnly.out[k]
            /\ MetadataKey \notin DOMAIN all.out
            /\ SecretsKey \notin DOMAIN all.out

(* ------------------------- properties of init -------------------------- *)

\* C37 (init never overwrites).  During and after a run of init, each of the
\* three files (identity, manifest, secrets file) that existed when the run
\* started is what it was then; and in a run that follows a run which
\* returned nil, all three files are what they were when it started.
C37_InitKeepsFiles ==
    disk.runs >= 1 =>
        /\ \A f \in 1..3 :
               disk.before[f].exists => Files(disk, file)[f] = disk.before[f]
        /\ disk.prevNil => Files(disk, file) = disk.before

\* A second run has returned nil after a first run that returned nil, with
\* a manifest that names a user and a secrets file on disk.
C37_Witness ==
    /\ disk.runs = 2
    /\ disk.pc = "done"
    /\ disk.result = "nil"
    /\ disk.prevNil
    /\ disk.manifest.users # <<>>
    /\ file.exists

(* ------------------------- properties of unset ------------------------- *)

\* The position of the first argument whose trimmed form is k.
FirstAt(args, k) == CHOOSE i \in DOMAIN args :
                        /\ TrimSpace(args[i]) = k
                        /\ \A j \in 1..(i - 1) : TrimSpace(args[j]) # k

\* C38 (unset).  For every secrets file the command can meet, every user and
\* every argument list that passes validation, when Unlock succeeds: the
\* command prints one line per distinct trimmed key, in the order of the keys'
\* first occurrences among the arguments; the line is a warning exactly for
\* a key UnsetSecret refuses (a reserved name, a name that is not stored),
\* and the keys after it are still processed; Save is called exactly when a
\* key was removed, and then the file lacks exactly the removed keys; when no
\* key was removed the file on disk is what it was.
C38_Unset ==
    \A identity \in Users, args \in UnsetArgLists :
        LET r == RunUnsetOp(file, identity, args)
            trimmed == {TrimSpace(args[i]) : i \in DOMAIN args}
            n == Len(r.out) - 1
            Stored(k) == k \in DOMAIN file.secrets \/ k \in DOMAIN file.legacy
            removed == {r.out[i].key : i \in {j \in 1..n : r.out[j].line = "unset"}}
        IN  (validateUnsetArgs(args) = "nil" /\ UnlockOp(LoadSecretFile(file), identity).err = "nil") =>
                /\ r.err = "nil"
                /\ n = Cardinality(trimmed)
                /\ {r.out[i].key : i \in 1..n} = trimmed
                /\ \A i, j \in 1..n :
                       i < j => FirstAt(args, r.out[i].key) < FirstAt(args, r.out[j].key)
                /\ \A i \in 1..n :
                       /\ r.out[i].line \in {"unset", "warning"}
                       /\ (r.out[i].line = "warning") =
                              (IsReserved(r.out[i].key) \/ ~Stored(r.out[i].key))
                /\ r.saved = (removed # {})
                /\ r.out[n + 1].line = (IF removed = {} THEN "no changes" ELSE "updated")
                /\ removed = {} => r.doc = file
                /\ removed # {} =>
                       /\ r.doc.exists
                       /\ r.doc.meta = file.meta
                       /\ r.doc.secrets = [k \in DOMAIN file.secrets \ removed |-> file.secrets[k]]
                       /\ r.doc.legacy = [k \in DOMAIN file.legacy \ removed |-> file.legacy[k]]

\* The command has warned about a key it could not remove, then removed the
\* next key and saved the file, which no longer holds that key.
C38_Witness ==
    /\ last.op = "unset" /\ last.err = "nil"
    /\ Len(stdout) = 3
    /\ stdout[1].line = "warning"
    /\ stdout[2] = Line("unset", <<"K">>)
    /\ stdout[3].line = "updated"
    /\ <<"K">> \notin DOMAIN file.secrets
    /\ dek = 0

====
